---- MODULE Spec2Model ----
(***************************************************************************)
(* Worm Maze Puzzle: the move/undo engine (game.js), the Snake class       *)
(* (snake.js), the constants (constants.js) and the successor computation  *)
(* of the offline verifier (scripts/validate-levels.js), as a state        *)
(* machine.  One action per public method of Game; every sub-method a      *)
(* handler calls is an operator on the record of the Game fields.          *)
(*                                                                         *)
(* Coordinates are 0-based as in the source; a segment list is a TLA+      *)
(* sequence, so segments[1] is the head (segments[0] in the source).       *)
(* A nullable field is a sequence of length 0 (null) or 1.                 *)
(***************************************************************************)
EXTENDS Integers, Sequences, FiniteSets, TLC

(***************************************************************************)
(* Bounds.  The source has HISTORY_LIMIT = 300 and STAR_POWER_MOVES = 8;   *)
(* the model keeps the names and scales the values down so that a full     *)
(* history and an expired star power are reached within a few moves.       *)
(***************************************************************************)
HISTORY_LIMIT == 2

STAR_POWER_MOVES == 2

\* most accepted moves in one session (cap on totalMoveCount)
MaxTotalMoves == 3

\* the clock supplied to update() advances MaxFrames times by FrameMs
FrameMs == 90

MaxFrames == 1

\* the largest visited-state budget the verifier is run with
MaxBudget == 16

(***************************************************************************)
(* constants.js                                                            *)
(***************************************************************************)
GRID_COLS == 20

GRID_ROWS == 15

TILE_EMPTY == 0

TILE_WALL == 1

TILE_EXIT == 2

TILE_OBSTACLE == 3

TILE_SPAWN == 4

TILE_ITEM == 5

TILE_BIG_ITEM == 6

TILE_STAR_ITEM == 7

TILE_PORTAL_A == 8

TILE_PORTAL_B == 9

MOVE_ANIMATION_MS == 120

DEADLOCK_HINT_MS == 2500

GAME_STATE == {"title", "level_select", "playing", "paused", "level_complete", "game_complete"}

STATE_TRANSITIONS ==
  [s \in GAME_STATE |->
     CASE s = "title" -> {"level_select", "playing"}
       [] s = "level_select" -> {"title", "playing"}
       [] s = "playing" -> {"paused", "level_complete", "game_complete", "title"}
       [] s = "paused" -> {"playing", "title", "level_select"}
       [] s = "level_complete" -> {"playing", "title", "level_select"}
       [] s = "game_complete" -> {"playing", "title", "level_select"}]

DirectionNames == {"up", "down", "left", "right"}

DIRECTIONS ==
  [d \in DirectionNames |->
     CASE d = "up" -> [x |-> 0, y |-> -1]
       [] d = "down" -> [x |-> 0, y |-> 1]
       [] d = "left" -> [x |-> -1, y |-> 0]
       [] d = "right" -> [x |-> 1, y |-> 0]]

\* Object.keys(DIRECTIONS), in insertion order
DirectionOrder == <<"up", "down", "left", "right">>

clamp(value, min, max) ==
  LET lo == IF value > min THEN value ELSE min
  IN IF lo < max THEN lo ELSE max

Pt(px, py) == [x |-> px, y |-> py]

Max2(a, b) == IF a > b THEN a ELSE b

\* the member of a one-element set.  Only({f(v) : v \in {e}}) is f(e), with
\* e evaluated once and held in v
Only(S) == CHOOSE member \in S : TRUE

(***************************************************************************)
(* levels.js: the level generator.  A template or a generated map is a     *)
(* sequence of rows, a row a sequence of one-character symbols (the        *)
(* source splits each row string into its characters and joins them        *)
(* again).                                                                 *)
(***************************************************************************)
BASE_STAGE_DEFS ==
  << [map |->
        << <<"#", "#", "#", "#", "#", "#", "#", "#", "#", "#", "#", "#", "#", "#", "#", "#", "#", "#", "#", "#">>,
           <<"#", "S", ".", ".", ".", ".", "I", ".", ".", ".", ".", ".", ".", ".", ".", ".", ".", ".", ".", "#">>,
           <<"#", ".", ".", ".", ".", ".", ".", ".", ".", ".", ".", ".", ".", ".", ".", ".", ".", ".", ".", "#">>,
           <<"#", ".", ".", "#", "#", "#", "#", "#", "#", ".", ".", ".", ".", ".", ".", ".", ".", ".", ".", "#">>,
           <<"#", ".", ".", "#", ".", ".", ".", ".", "#", ".", ".", ".", ".", ".", ".", ".", ".", ".", ".", "#">>,
           <<"#", ".", ".", "#", ".", ".", ".", ".", "#", ".", ".", ".", ".", ".", ".", ".", ".", ".", ".", "#">>,
           <<"#", ".", ".", "#", ".", ".", ".", ".", "#", "#", "#", "#", "#", "#", ".", ".", ".", ".", ".", "#">>,
           <<"#", ".", ".", "#", ".", ".", ".", ".", ".", ".", ".", ".", ".", ".", ".", ".", ".", ".", ".", "#">>,
           <<"#", ".", ".", "#", "#", "#", "#", "#", "#", ".", ".", ".", ".", ".", ".", ".", ".", ".", ".", "#">>,
           <<"#", ".", ".", ".", ".", ".", ".", ".", ".", ".", ".", ".", ".", ".", ".", ".", ".", ".", ".", "#">>,
           <<"#", ".", ".", ".", ".", ".", ".", ".", ".", ".", ".", "#", "#", "#", "#", "#", "#", ".", ".", "#">>,
           <<"#", ".", ".", ".", ".", ".", ".", ".", ".", ".", ".", "#", ".", ".", ".", ".", "#", ".", ".", "#">>,
           <<"#", ".", ".", ".", ".", ".", ".", ".", ".", ".", ".", "#", ".", ".", ".", ".", "#", "E", ".", "#">>,
           <<"#", ".", ".", ".", ".", ".", ".", ".", ".", ".", ".", ".", ".", ".", ".", ".", ".", ".", ".", "#">>,
           <<"#", "#", "#", "#", "#", "#", "#", "#", "#", "#", "#", "#", "#", "#", "#", "#", "#", "#", "#", "#">> >>],
     [map |->
        << <<"#", "#", "#", "#", "#", "#", "#", "#", "#", "#", "#", "#", "#", "#", "#", "#", "#", "#", "#", "#">>,
           <<"#", "S", ".", "I", ".", ".", "#", "#", "#", "#", "#", ".", ".", ".", ".", ".", ".", ".", ".", "#">>,
           <<"#", ".", "#", "#", "#", ".", "#", ".", ".", ".", "#", ".", "#", "#", "#", "#", "#", "#", ".", "#">>,
           <<"#", ".", ".", ".", "#", ".", "#", ".", "#", ".", "#", ".", "#", ".", ".", ".", ".", "#", ".", "#">>,
           <<"#", "#", "#", ".", "#", ".", "#", ".", "#", ".", "#", ".", "#", ".", "#", "#", ".", "#", ".", "#">>,
           <<"#", ".", ".", ".", "#", ".", ".", ".", "#", ".", ".", ".", "#", ".", "#", ".", ".", "#", ".", "#">>,
           <<"#", ".", "#", "#", "#", "#", "#", "#", "#", "#", "#", "#", "#", ".", "#", ".", "#", "#", ".", "#">>,
           <<"#", ".", ".", ".", ".", ".", ".", ".", ".", ".", ".", ".", "#", ".", "#", ".", ".", ".", ".", "#">>,
           <<"#", ".", "#", "#", "#", "#", "#", "#", "#", "#", "#", ".", "#", ".", "#", "#", "#", "#", "#", "#">>,
           <<"#", ".", "#", ".", ".", ".", ".", ".", ".", ".", "#", ".", "#", ".", ".", ".", ".", ".", ".", "#">>,
           <<"#", ".", "#", ".", "#", "#", "#", "#", "#", ".", "#", ".", "#", "#", "#", "#", "#", "#", ".", "#">>,
           <<"#", ".", "#", ".", ".", ".", ".", ".", "#", ".", "#", ".", ".", ".", ".", "#", ".", ".", ".", "#">>,
           <<"#", ".", "#", "#", "#", "#", "#", ".", "#", ".", "#", "#", "#", "#", ".", "#", ".", "E", ".", "#">>,
           <<"#", ".", ".", ".", ".", ".", ".", ".", "#", ".", ".", ".", ".", ".", ".", "#", ".", ".", ".", "#">>,
           <<"#", "#", "#", "#", "#", "#", "#", "#", "#", "#", "#", "#", "#", "#", "#", "#", "#", "#", "#", "#">> >>],
     [map |->
        << <<"#", "#", "#", "#", "#", "#", "#", "#", "#", "#", "#", "#", "#", "#", "#", "#", "#", "#", "#", "#">>,
           <<"#", "S", ".", ".", ".", ".", "I", ".", ".", ".", ".", ".", ".", ".", ".", ".", ".", ".", ".", "#">>,
           <<"#", ".", "#", "#", "#", "#", "#", "#", ".", "#", "#", "#", "#", "#", "#", "#", "#", "#", ".", "#">>,
           <<"#", ".", "#", ".", ".", ".", ".", "#", ".", ".", ".", ".", ".", "#", ".", ".", ".", ".", ".", "#">>,
           <<"#", ".", "#", ".", "#", "#", ".", "#", "#", "#", "#", "#", ".", "#", ".", "#", "#", "#", ".", "#">>,
           <<"#", ".", "#", ".", "#", ".", ".", ".", ".", ".", ".", "#", ".", "#", ".", ".", ".", "#", ".", "#">>,
           <<"#", ".", ".", ".", "#", ".", "#", "#", "#", "#", ".", "#", ".", "#", "#", "#", ".", "#", ".", "#">>,
           <<"#", "#", "#", ".", "#", ".", "#", ".", ".", "#", ".", "#", ".", ".", ".", "#", ".", "#", ".", "#">>,
           <<"#", ".", ".", ".", "#", ".", "#", ".", ".", "#", ".", "#", "#", "#", ".", "#", ".", "#", ".", "#">>,
           <<"#", ".", "#", "#", "#", ".", "#", "#", ".", "#", ".", ".", ".", ".", ".", "#", ".", "#", ".", "#">>,
           <<"#", ".", ".", ".", ".", ".", "#", ".", ".", "#", "#", "#", "#", "#", "#", "#", ".", "#", ".", "#">>,
           <<"#", ".", "#", "#", "#", "#", "#", ".", ".", ".", ".", ".", ".", ".", ".", "#", ".", "#", ".", "#">>,
           <<"#", ".", "#", ".", ".", ".", ".", ".", "#", "#", "#", "#", "#", "#", ".", "#", ".", "#", "E", "#">>,
           <<"#", ".", ".", ".", "#", "#", "#", "#", ".", ".", ".", ".", ".", ".", "#", ".", ".", ".", ".", "#">>,
           <<"#", "#", "#", "#", "#", "#", "#", "#", "#", "#", "#", "#", "#", "#", "#", "#", "#", "#", "#", "#">> >>],
     [map |->
        << <<"#", "#", "#", "#", "#", "#", "#", "#", "#", "#", "#", "#", "#", "#", "#", "#", "#", "#", "#", "#">>,
           <<"#", "S", ".", ".", ".", ".", "I", ".", ".", ".", ".", ".", ".", ".", ".", "#", ".", ".", ".", "#">>,
           <<"#", ".", "#", "#", "#", "#", "#", "#", "#", "#", "#", "#", "#", ".", ".", "#", ".", "#", ".", "#">>,
           <<"#", ".", "#", ".", ".", ".", ".", ".", ".", ".", ".", ".", "#", ".", ".", "#", ".", "#", ".", "#">>,
           <<"#", ".", "#", ".", "#", "#", "#", "#", "#", "#", "#", ".", "#", ".", ".", "#", ".", "#", ".", "#">>,
           <<"#", ".", "#", ".", "#", ".", ".", ".", ".", ".", "#", ".", "#", ".", ".", "#", ".", "#", ".", "#">>,
           <<"#", ".", ".", ".", "#", ".", "X", "X", "X", ".", "#", ".", "#", ".", ".", "#", ".", "#", ".", "#">>,
           <<"#", "#", "#", ".", "#", ".", "X", "X", "X", ".", "#", ".", "#", ".", ".", "#", ".", "#", ".", "#">>,
           <<"#", ".", ".", ".", "#", ".", "X", "X", "X", ".", "#", ".", "#", ".", ".", ".", ".", "#", ".", "#">>,
           <<"#", ".", "#", "#", "#", ".", ".", ".", ".", ".", "#", ".", "#", "#", "#", "#", "#", "#", ".", "#">>,
           <<"#", ".", ".", ".", "#", "#", "#", "#", "#", "#", "#", ".", ".", ".", ".", ".", ".", ".", ".", "#">>,
           <<"#", ".", "#", "#", "#", "#", "#", "#", "#", "#", "#", ".", "#", "#", "#", "#", "#", "#", ".", "#">>,
           <<"#", ".", ".", ".", ".", ".", ".", ".", "#", ".", ".", ".", ".", ".", ".", ".", ".", ".", ".", "#">>,
           <<"#", ".", "#", "#", "#", "#", "#", ".", "#", ".", "#", "#", "#", "#", "#", "#", "#", "#", "E", "#">>,
           <<"#", "#", "#", "#", "#", "#", "#", "#", "#", "#", "#", "#", "#", "#", "#", "#", "#", "#", "#", "#">> >>],
     [map |->
        << <<"#", "#", "#", "#", "#", "#", "#", "#", "#", "#", "#", "#", "#", "#", "#", "#", "#", "#", "#", "#">>,
           <<"#", "S", ".", ".", "#", ".", ".", ".", ".", "I", ".", ".", ".", ".", ".", ".", ".", ".", ".", "#">>,
           <<"#", ".", ".", "#", ".", "#", ".", "#", "#", "#", "#", "#", "#", "#", "#", "#", "#", ".", ".", "#">>,
           <<"#", ".", ".", "#", ".", "#", ".", ".", ".", ".", ".", ".", ".", ".", ".", ".", ".", "#", ".", "#">>,
           <<"#", ".", "#", "#", ".", "#", "#", "#", "#", "#", "#", "#", "#", "#", "#", "#", ".", "#", ".", "#">>,
           <<"#", ".", ".", ".", ".", "#", ".", ".", ".", ".", ".", ".", ".", ".", ".", "#", ".", "#", ".", "#">>,
           <<"#", "#", "#", "#", ".", "#", ".", "#", "#", "#", "#", "#", "#", "#", ".", "#", ".", "#", ".", "#">>,
           <<"#", ".", ".", ".", ".", "#", ".", "#", ".", ".", ".", ".", ".", "#", ".", "#", ".", "#", ".", "#">>,
           <<"#", ".", "#", "#", "#", "#", ".", "#", ".", "#", "#", "#", ".", "#", ".", "#", ".", "#", ".", "#">>,
           <<"#", ".", "#", ".", ".", ".", ".", "#", ".", ".", ".", "#", ".", "#", ".", "#", ".", "#", ".", "#">>,
           <<"#", ".", "#", ".", "#", "#", "#", "#", "#", "#", ".", "#", ".", "#", ".", "#", ".", "#", ".", "#">>,
           <<"#", ".", "#", ".", ".", ".", ".", ".", ".", "#", ".", "#", ".", "#", ".", ".", ".", "#", ".", "#">>,
           <<"#", ".", "#", "#", "#", "#", "#", "#", ".", "#", ".", "#", ".", "#", "#", "#", "#", "#", ".", "#">>,
           <<"#", ".", ".", ".", ".", ".", ".", ".", ".", "#", ".", ".", ".", ".", ".", "E", ".", ".", ".", "#">>,
           <<"#", "#", "#", "#", "#", "#", "#", "#", "#", "#", "#", "#", "#", "#", "#", "#", "#", "#", "#", "#">> >>],
     [map |->
        << <<"#", "#", "#", "#", "#", "#", "#", "#", "#", "#", "#", "#", "#", "#", "#", "#", "#", "#", "#", "#">>,
           <<"#", "S", ".", ".", ".", ".", "I", ".", ".", ".", ".", ".", ".", ".", ".", ".", ".", ".", ".", "#">>,
           <<"#", ".", "#", "#", "#", "#", "#", "#", "#", "#", "#", ".", "#", "#", "#", "#", "#", "#", ".", "#">>,
           <<"#", ".", "#", ".", ".", ".", ".", ".", ".", ".", "#", ".", "#", ".", ".", ".", ".", "#", ".", "#">>,
           <<"#", ".", "#", ".", "#", "#", "#", "#", "#", ".", "#", ".", "#", ".", "#", "#", ".", "#", ".", "#">>,
           <<"#", ".", "#", ".", "#", ".", ".", ".", "#", ".", "#", ".", "#", ".", "#", ".", ".", "#", ".", "#">>,
           <<"#", ".", ".", ".", "#", ".", "#", ".", "#", ".", ".", ".", "#", ".", "#", ".", "#", "#", ".", "#">>,
           <<"#", "#", "#", "#", "#", ".", "#", ".", "#", "#", "#", "#", "#", ".", "#", ".", ".", ".", ".", "#">>,
           <<"#", ".", ".", ".", ".", ".", "#", ".", ".", ".", ".", ".", "#", ".", "#", ".", "#", "#", "#", "#">>,
           <<"#", ".", "#", "#", "#", "#", "#", "#", "#", "#", "#", ".", "#", ".", "#", ".", ".", ".", ".", "#">>,
           <<"#", ".", "#", ".", ".", ".", ".", ".", ".", ".", "#", ".", "#", ".", "#", "#", ".", "#", ".", "#">>,
           <<"#", ".", "#", ".", "#", "#", "#", "#", "#", ".", "#", ".", "#", ".", ".", ".", ".", "#", ".", "#">>,
           <<"#", ".", "#", ".", ".", ".", ".", ".", "#", ".", "#", ".", "#", "#", "#", "#", "#", "#", ".", "#">>,
           <<"#", ".", "#", "#", "#", "#", "#", ".", "#", ".", "#", ".", ".", ".", ".", ".", ".", "E", ".", "#">>,
           <<"#", "#", "#", "#", "#", "#", "#", "#", "#", "#", "#", "#", "#", "#", "#", "#", "#", "#", "#", "#">> >>],
     [map |->
        << <<"#", "#", "#", "#", "#", "#", "#", "#", "#", "#", "#", "#", "#", "#", "#", "#", "#", "#", "#", "#">>,
           <<"#", "S", ".", ".", ".", ".", "I", ".", ".", ".", ".", ".", ".", ".", ".", ".", ".", ".", ".", "#">>,
           <<"#", ".", "#", "#", "#", "#", "#", "#", "#", "#", "#", "#", "#", "#", "#", "#", "#", "#", ".", "#">>,
           <<"#", ".", "#", ".", ".", ".", ".", ".", ".", ".", ".", ".", ".", ".", ".", ".", ".", "#", ".", "#">>,
           <<"#", ".", "#", ".", "#", "#", "#", "#", "#", "#", "#", "#", "#", "#", "#", "#", ".", "#", ".", "#">>,
           <<"#", ".", "#", ".", "#", ".", ".", ".", ".", ".", ".", ".", ".", ".", ".", "#", ".", "#", ".", "#">>,
           <<"#", ".", "#", ".", "#", ".", "#", "#", "#", "#", "#", "#", "#", "#", ".", "#", ".", "#", ".", "#">>,
           <<"#", ".", "#", ".", "#", ".", "#", ".", ".", ".", ".", ".", ".", "#", ".", "#", ".", "#", ".", "#">>,
           <<"#", ".", "#", ".", "#", ".", "#", ".", "#", "#", "#", "#", ".", "#", ".", "#", ".", "#", ".", "#">>,
           <<"#", ".", "#", ".", "#", ".", "#", ".", ".", ".", ".", "#", ".", "#", ".", "#", ".", "#", ".", "#">>,
           <<"#", ".", "#", ".", "#", ".", "#", "#", "#", "#", ".", "#", ".", "#", ".", "#", ".", "#", ".", "#">>,
           <<"#", ".", "#", ".", "#", ".", ".", ".", ".", ".", ".", "#", ".", "#", ".", "#", ".", "#", ".", "#">>,
           <<"#", ".", "#", ".", "#", "#", "#", "#", "#", "#", "#", "#", ".", "#", ".", "#", ".", "#", ".", "#">>,
           <<"#", ".", ".", ".", ".", ".", ".", ".", ".", ".", ".", ".", ".", ".", ".", ".", ".", ".", "E", "#">>,
           <<"#", "#", "#", "#", "#", "#", "#", "#", "#", "#", "#", "#", "#", "#", "#", "#", "#", "#", "#", "#">> >>],
     [map |->
        << <<"#", "#", "#", "#", "#", "#", "#", "#", "#", "#", "#", "#", "#", "#", "#", "#", "#", "#", "#", "#">>,
           <<"#", "S", ".", ".", ".", ".", "#", ".", ".", ".", ".", "I", ".", ".", ".", ".", ".", ".", ".", "#">>,
           <<"#", ".", "#", "#", ".", "#", ".", "#", ".", "#", "#", "#", "#", "#", "#", "#", "#", "#", ".", "#">>,
           <<"#", ".", ".", ".", ".", "#", ".", "#", ".", ".", ".", ".", ".", ".", ".", "#", ".", ".", ".", "#">>,
           <<"#", ".", "#", "#", "#", "#", ".", "#", "#", "#", "#", "#", ".", "#", ".", "#", ".", "#", ".", "#">>,
           <<"#", ".", ".", ".", ".", ".", ".", "#", ".", ".", ".", "#", ".", "#", ".", "#", ".", "#", ".", "#">>,
           <<"#", ".", "#", "#", "#", "#", "#", "#", ".", "#", ".", "#", ".", "#", ".", "#", ".", "#", ".", "#">>,
           <<"#", ".", "#", ".", ".", ".", ".", "#", ".", "#", ".", "#", ".", "#", ".", "#", ".", "#", ".", "#">>,
           <<"#", ".", "#", ".", "#", "#", ".", "#", ".", "#", ".", "#", ".", "#", ".", "#", ".", "#", ".", "#">>,
           <<"#", ".", "#", ".", ".", ".", ".", "#", ".", "#", ".", "#", ".", "#", ".", "#", ".", "#", ".", "#">>,
           <<"#", ".", "#", "#", "#", "#", "#", "#", ".", "#", ".", "#", ".", "#", ".", "#", ".", "#", ".", "#">>,
           <<"#", ".", ".", ".", ".", ".", ".", ".", ".", "#", ".", "#", ".", "#", ".", "#", ".", "#", ".", "#">>,
           <<"#", ".", "#", "#", "#", "#", "#", "#", "#", "#", ".", "#", ".", "#", ".", "#", ".", "#", ".", "#">>,
           <<"#", ".", ".", ".", ".", ".", ".", ".", ".", ".", ".", ".", ".", ".", ".", ".", "E", ".", ".", "#">>,
           <<"#", "#", "#", "#", "#", "#", "#", "#", "#", "#", "#", "#", "#", "#", "#", "#", "#", "#", "#", "#">> >>],
     [map |->
        << <<"#", "#", "#", "#", "#", "#", "#", "#", "#", "#", "#", "#", "#", "#", "#", "#", "#", "#", "#", "#">>,
           <<"#", "S", ".", ".", ".", "I", ".", ".", ".", "#", ".", ".", ".", ".", ".", ".", ".", ".", ".", "#">>,
           <<"#", ".", "#", "#", "#", "#", "#", ".", "#", ".", "#", ".", "#", "#", "#", "#", "#", ".", ".", "#">>,
           <<"#", ".", "#", ".", ".", ".", "#", ".", "#", ".", "#", ".", "#", ".", ".", ".", "#", ".", ".", "#">>,
           <<"#", ".", "#", ".", "#", ".", "#", ".", "#", ".", "#", ".", "#", ".", "#", ".", "#", ".", ".", "#">>,
           <<"#", ".", ".", ".", "#", ".", ".", ".", "#", ".", ".", ".", "#", ".", "#", ".", "#", ".", ".", "#">>,
           <<"#", "#", "#", ".", "#", "#", "#", "#", "#", "#", "#", "#", "#", ".", "#", ".", "#", ".", ".", "#">>,
           <<"#", ".", ".", ".", "#", ".", ".", ".", ".", ".", ".", ".", "#", ".", "#", ".", "#", ".", ".", "#">>,
           <<"#", ".", "#", "#", "#", ".", "#", "#", "#", "#", "#", ".", "#", ".", "#", ".", "#", ".", ".", "#">>,
           <<"#", ".", "#", ".", ".", ".", "#", ".", ".", ".", "#", ".", "#", ".", "#", ".", "#", ".", ".", "#">>,
           <<"#", ".", "#", ".", "#", "#", "#", ".", "#", ".", "#", ".", "#", ".", "#", ".", "#", ".", ".", "#">>,
           <<"#", ".", "#", ".", ".", ".", ".", ".", "#", ".", "#", ".", "#", ".", ".", ".", "#", ".", ".", "#">>,
           <<"#", ".", "#", "#", "#", "#", "#", "#", "#", ".", "#", ".", "#", "#", "#", "#", "#", ".", ".", "#">>,
           <<"#", ".", ".", ".", ".", ".", ".", ".", ".", ".", ".", ".", ".", ".", ".", ".", "E", ".", ".", "#">>,
           <<"#", "#", "#", "#", "#", "#", "#", "#", "#", "#", "#", "#", "#", "#", "#", "#", "#", "#", "#", "#">> >>],
     [map |->
        << <<"#", "#", "#", "#", "#", "#", "#", "#", "#", "#", "#", "#", "#", "#", "#", "#", "#", "#", "#", "#">>,
           <<"#", "S", ".", ".", ".", ".", "#", ".", ".", ".", ".", "I", ".", ".", ".", ".", ".", ".", ".", "#">>,
           <<"#", ".", "#", "#", ".", "#", ".", "#", ".", "#", "#", "#", "#", "#", "#", "#", "#", "#", ".", "#">>,
           <<"#", ".", ".", ".", ".", "#", ".", "#", ".", ".", ".", ".", ".", ".", ".", "#", ".", ".", ".", "#">>,
           <<"#", ".", "#", "#", "#", "#", ".", "#", "#", "#", "#", "#", ".", "#", ".", "#", ".", "#", ".", "#">>,
           <<"#", ".", ".", ".", ".", ".", ".", "#", ".", ".", ".", "#", ".", "#", ".", "#", ".", "#", ".", "#">>,
           <<"#", ".", "#", "#", "#", "#", "#", "#", ".", "#", ".", "#", ".", "#", ".", "#", ".", "#", ".", "#">>,
           <<"#", ".", "#", ".", ".", ".", ".", "#", ".", "#", ".", "#", ".", "#", ".", "#", ".", "#", ".", "#">>,
           <<"#", ".", "#", ".", "#", "#", ".", "#", ".", "#", ".", "#", ".", "#", ".", "#", ".", "#", ".", "#">>,
           <<"#", ".", "#", ".", ".", ".", ".", "#", ".", "#", ".", "#", ".", "#", ".", "#", ".", "#", ".", "#">>,
           <<"#", ".", "#", "#", "#", "#", "#", "#", ".", "#", ".", "#", ".", "#", ".", "#", ".", "#", ".", "#">>,
           <<"#", ".", ".", ".", ".", ".", ".", ".", ".", "#", ".", "#", ".", "#", ".", "#", ".", "#", ".", "#">>,
           <<"#", ".", "#", "#", "#", "#", "#", "#", "#", "#", ".", "#", ".", "#", ".", "#", ".", "#", ".", "#">>,
           <<"#", ".", ".", ".", ".", ".", ".", ".", ".", ".", ".", ".", ".", ".", ".", ".", "E", ".", ".", "#">>,
           <<"#", "#", "#", "#", "#", "#", "#", "#", "#", "#", "#", "#", "#", "#", "#", "#", "#", "#", "#", "#">> >>] >>

\* two maps that are not among the shipped templates, each with a walled
\* border, one spawn and one exit: in the first the only free cells off the
\* route lie within 5 steps of the spawn or of the exit, in the second a
\* wall separates the spawn from the exit
OtherTemplates ==
  << << <<"#", "#", "#", "#", "#", "#", "#", "#", "#", "#", "#", "#", "#", "#", "#", "#", "#", "#", "#", "#">>,
        <<"#", "S", ".", ".", ".", ".", ".", ".", ".", ".", ".", ".", ".", ".", ".", ".", ".", ".", "E", "#">>,
        <<"#", "X", "X", ".", ".", ".", "X", "X", "X", "X", "X", "X", "X", "X", ".", ".", ".", "X", "X", "#">>,
        <<"#", "#", "#", "#", "#", "#", "#", "#", "#", "#", "#", "#", "#", "#", "#", "#", "#", "#", "#", "#">>,
        <<"#", "#", "#", "#", "#", "#", "#", "#", "#", "#", "#", "#", "#", "#", "#", "#", "#", "#", "#", "#">>,
        <<"#", "#", "#", "#", "#", "#", "#", "#", "#", "#", "#", "#", "#", "#", "#", "#", "#", "#", "#", "#">>,
        <<"#", "#", "#", "#", "#", "#", "#", "#", "#", "#", "#", "#", "#", "#", "#", "#", "#", "#", "#", "#">>,
        <<"#", "#", "#", "#", "#", "#", "#", "#", "#", "#", "#", "#", "#", "#", "#", "#", "#", "#", "#", "#">>,
        <<"#", "#", "#", "#", "#", "#", "#", "#", "#", "#", "#", "#", "#", "#", "#", "#", "#", "#", "#", "#">>,
        <<"#", "#", "#", "#", "#", "#", "#", "#", "#", "#", "#", "#", "#", "#", "#", "#", "#", "#", "#", "#">>,
        <<"#", "#", "#", "#", "#", "#", "#", "#", "#", "#", "#", "#", "#", "#", "#", "#", "#", "#", "#", "#">>,
        <<"#", "#", "#", "#", "#", "#", "#", "#", "#", "#", "#", "#", "#", "#", "#", "#", "#", "#", "#", "#">>,
        <<"#", "#", "#", "#", "#", "#", "#", "#", "#", "#", "#", "#", "#", "#", "#", "#", "#", "#", "#", "#">>,
        <<"#", "#", "#", "#", "#", "#", "#", "#", "#", "#", "#", "#", "#", "#", "#", "#", "#", "#", "#", "#">>,
        <<"#", "#", "#", "#", "#", "#", "#", "#", "#", "#", "#", "#", "#", "#", "#", "#", "#", "#", "#", "#">> >>,
     << <<"#", "#", "#", "#", "#", "#", "#", "#", "#", "#", "#", "#", "#", "#", "#", "#", "#", "#", "#", "#">>,
        <<"#", "S", ".", ".", ".", ".", ".", ".", ".", "#", ".", ".", ".", ".", ".", ".", ".", ".", "E", "#">>,
        <<"#", ".", ".", ".", ".", ".", ".", ".", ".", "#", ".", ".", ".", ".", ".", ".", ".", ".", ".", "#">>,
        <<"#", "#", "#", "#", "#", "#", "#", "#", "#", "#", "#", "#", "#", "#", "#", "#", "#", "#", "#", "#">>,
        <<"#", "#", "#", "#", "#", "#", "#", "#", "#", "#", "#", "#", "#", "#", "#", "#", "#", "#", "#", "#">>,
        <<"#", "#", "#", "#", "#", "#", "#", "#", "#", "#", "#", "#", "#", "#", "#", "#", "#", "#", "#", "#">>,
        <<"#", "#", "#", "#", "#", "#", "#", "#", "#", "#", "#", "#", "#", "#", "#", "#", "#", "#", "#", "#">>,
        <<"#", "#", "#", "#", "#", "#", "#", "#", "#", "#", "#", "#", "#", "#", "#", "#", "#", "#", "#", "#">>,
        <<"#", "#", "#", "#", "#", "#", "#", "#", "#", "#", "#", "#", "#", "#", "#", "#", "#", "#", "#", "#">>,
        <<"#", "#", "#", "#", "#", "#", "#", "#", "#", "#", "#", "#", "#", "#", "#", "#", "#", "#", "#", "#">>,
        <<"#", "#", "#", "#", "#", "#", "#", "#", "#", "#", "#", "#", "#", "#", "#", "#", "#", "#", "#", "#">>,
        <<"#", "#", "#", "#", "#", "#", "#", "#", "#", "#", "#", "#", "#", "#", "#", "#", "#", "#", "#", "#">>,
        <<"#", "#", "#", "#", "#", "#", "#", "#", "#", "#", "#", "#", "#", "#", "#", "#", "#", "#", "#", "#">>,
        <<"#", "#", "#", "#", "#", "#", "#", "#", "#", "#", "#", "#", "#", "#", "#", "#", "#", "#", "#", "#">>,
        <<"#", "#", "#", "#", "#", "#", "#", "#", "#", "#", "#", "#", "#", "#", "#", "#", "#", "#", "#", "#">> >> >>

LCG_MULTIPLIER == 1664525

LCG_INCREMENT == 1013904223

\* a grid is a sequence of rows, a row a sequence of one-character symbols;
\* GridAt and GridSet are grid[y][x] and grid[y][x] = symbol
GridAt(grid, px, py) == grid[py + 1][px + 1]

GridSet(grid, px, py, symbol) == [grid EXCEPT ![py + 1][px + 1] = symbol]

\* the generator state is a 32-bit unsigned integer, kept as two 16-bit
\* halves so that no intermediate value leaves the 32-bit integers of TLC
HalfWord == 2 ^ 16

\* createRng(seed): (seed >>> 0) || 1
createRng(seed) ==
  LET word == [hi |-> (seed \div HalfWord) % HalfWord, lo |-> seed % HalfWord]
  IN IF word.hi = 0 /\ word.lo = 0 THEN [hi |-> 0, lo |-> 1] ELSE word

\* rand(): state = (state * 1664525 + 1013904223) >>> 0
rngNext(rng) ==
  LET low == rng.lo * (LCG_MULTIPLIER % HalfWord) + (LCG_INCREMENT % HalfWord)
      high == rng.hi * (LCG_MULTIPLIER % HalfWord)
              + rng.lo * (LCG_MULTIPLIER \div HalfWord)
              + (LCG_INCREMENT \div HalfWord)
              + (low \div HalfWord)
  IN [hi |-> high % HalfWord, lo |-> low % HalfWord]

\* Math.floor(rand() * n) for the state rand() has just produced:
\* floor(state * n / 2^32)
randomBelow(rng, n) == (rng.hi * n + ((rng.lo * n) \div HalfWord)) \div HalfWord

isInside(px, py) == px >= 0 /\ py >= 0 /\ px < GRID_COLS /\ py < GRID_ROWS

\* isInterior that takes the border cells for interior cells
isInteriorOrBorder(px, py) == isInside(px, py)

isInterior(px, py) == px > 0 /\ py > 0 /\ px < GRID_COLS - 1 /\ py < GRID_ROWS - 1

isCharWalkable(char) == char # "#" /\ char # "X"

\* the cells of the board in the order of the nested y, x loops
RowMajorCells ==
  [i \in 1 .. (GRID_ROWS * GRID_COLS) |-> Pt((i - 1) % GRID_COLS, (i - 1) \div GRID_COLS)]

\* collectCells(grid, predicate): the predicate is a function of the
\* symbol and the coordinates of a cell
collectCells(grid, predicate) ==
  SelectSeq(RowMajorCells, LAMBDA c : predicate[GridAt(grid, c.x, c.y), c.x, c.y])

\* findChar: <<>> for null, else the first cell in row-major order
findChar(grid, target) ==
  LET found == collectCells(grid, [char \in STRING, px \in Int, py \in Int |-> char = target])
  IN IF found = <<>> THEN <<>> ELSE <<found[1]>>

Min2(a, b) == IF a <= b THEN a ELSE b

manhattan(a, b) ==
  (IF a.x >= b.x THEN a.x - b.x ELSE b.x - a.x) + (IF a.y >= b.y THEN a.y - b.y ELSE b.y - a.y)

\* the neighbour order of bfsPath and carveBranches
GeneratorDirs == <<Pt(1, 0), Pt(-1, 0), Pt(0, 1), Pt(0, -1)>>

\* the greatest number of cells a loop of the generator can run over
BoardSize == GRID_ROWS * GRID_COLS

\* The loops of the generator are written as a step (one pass of the loop
\* body, which leaves a finished loop alone) and a run of at most n steps
\* that is evaluated by halves, the second half only while the loop is not
\* finished.

\* one pass of the loop of bfsPath: the queue entries carry the index of
\* their predecessor (prev), seen is the set of the cells queued so far
bfsStep(grid, goal, b) ==
  IF b.done
  THEN b
  ELSE IF b.head > Len(b.queue)
       THEN [b EXCEPT !.done = TRUE]
       ELSE LET node == b.queue[b.head].cell
                around == [i \in 1 .. 4 |->
                             Pt(node.x + GeneratorDirs[i].x, node.y + GeneratorDirs[i].y)]
                fresh == SelectSeq(around, LAMBDA c :
                           /\ isInside(c.x, c.y)
                           /\ isCharWalkable(GridAt(grid, c.x, c.y))
                           /\ c \notin b.seen)
            IN IF node = goal
               THEN [b EXCEPT !.done = TRUE, !.found = b.head]
               ELSE [b EXCEPT !.queue = @ \o [i \in 1 .. Len(fresh) |->
                                               [cell |-> fresh[i], prev |-> b.head]],
                              !.head = @ + 1,
                              !.seen = @ \cup {fresh[i] : i \in 1 .. Len(fresh)}]

RECURSIVE bfsRun(_, _, _, _)

bfsRun(grid, goal, b, n) ==
  IF n <= 1
  THEN bfsStep(grid, goal, b)
  ELSE Only({IF half.done THEN half ELSE bfsRun(grid, goal, half, n - (n \div 2)) :
               half \in {bfsRun(grid, goal, b, n \div 2)}})

\* one pass of the loop that walks prev back from the goal
bfsTraceStep(queue, t) ==
  IF t.done
  THEN t
  ELSE [done |-> queue[t.at].prev = 0,
        at |-> queue[t.at].prev,
        path |-> <<queue[t.at].cell>> \o t.path]

RECURSIVE bfsTraceRun(_, _, _)

bfsTraceRun(queue, t, n) ==
  IF n <= 1
  THEN bfsTraceStep(queue, t)
  ELSE Only({IF half.done THEN half ELSE bfsTraceRun(queue, half, n - (n \div 2)) :
               half \in {bfsTraceRun(queue, t, n \div 2)}})

\* bfsPath(grid, start, goal); start and goal are <<>> for null
bfsPath(grid, start, goal) ==
  IF start = <<>> \/ goal = <<>>
  THEN <<>>
  ELSE Only({IF search.found = 0
             THEN <<>>
             ELSE bfsTraceRun(search.queue,
                              [done |-> FALSE, at |-> search.found, path |-> <<>>],
                              BoardSize).path :
               search \in {bfsRun(grid, goal[1],
                                  [queue |-> <<[cell |-> start[1], prev |-> 0]>>, head |-> 1,
                                   seen |-> {start[1]}, done |-> FALSE, found |-> 0],
                                  BoardSize + 1)}})

\* one pass of the loop of shuffleInPlace, at index i (0-based)
shuffleStep(s) ==
  IF s.i < 1
  THEN s
  ELSE LET drawn == rngNext(s.rng)
           j == randomBelow(drawn, s.i + 1)
       IN [items |-> [s.items EXCEPT ![s.i + 1] = s.items[j + 1], ![j + 1] = s.items[s.i + 1]],
           rng |-> drawn,
           i |-> s.i - 1]

RECURSIVE shuffleRun(_, _)

shuffleRun(s, n) ==
  IF n <= 1
  THEN shuffleStep(s)
  ELSE Only({IF half.i < 1 THEN half ELSE shuffleRun(half, n - (n \div 2)) :
               half \in {shuffleRun(s, n \div 2)}})

\* shuffleInPlace(items, rand): the items and the generator after it
shuffleInPlace(items, rng) ==
  shuffleRun([items |-> items, rng |-> rng, i |-> Len(items) - 1], Len(items))

RECURSIVE carveLine(_, _, _, _, _)

\* the inner loop of carveBranches: at most len wall cells in a line become
\* empty; the grid and the number of cells carved
carveLine(grid, cell, dir, len, carved) ==
  IF len = 0 \/ ~isInterior(cell.x, cell.y) \/ GridAt(grid, cell.x, cell.y) # "#"
  THEN [grid |-> grid, carved |-> carved]
  ELSE carveLine(GridSet(grid, cell.x, cell.y, "."),
                 Pt(cell.x + dir.x, cell.y + dir.y), dir, len - 1, carved + 1)

carveBranchCount(world, stage) ==
  1 + (world \div 2) + (stage \div 4)
    + (IF world >= 7 THEN 2 ELSE 0) + (IF world >= 9 THEN 2 ELSE 0)

carveMaxLen(world) == IF world >= 8 THEN 6 ELSE IF world >= 6 THEN 5 ELSE 3

\* the outer loop of carveBranches is over, or returns
carveDone(c, safePath, attempts) ==
  ~(c.n < attempts /\ c.branchCount > 0) \/ Len(safePath) < 6

\* one pass of the outer loop of carveBranches
carveStep(c, safePath, attempts, maxLen) ==
  IF carveDone(c, safePath, attempts)
  THEN c
  ELSE LET r1 == rngNext(c.rng)
           origin == safePath[2 + randomBelow(r1, Len(safePath) - 4) + 1]
           r2 == rngNext(r1)
           dir == GeneratorDirs[randomBelow(r2, 4) + 1]
           first == Pt(origin.x + dir.x, origin.y + dir.y)
           r3 == rngNext(r2)
           len == 1 + randomBelow(r3, maxLen)
           line == carveLine(c.grid, first, dir, len, 0)
       IN IF ~isInterior(first.x, first.y) \/ GridAt(c.grid, first.x, first.y) # "#"
          THEN [c EXCEPT !.rng = r2, !.n = @ + 1]
          ELSE [grid |-> line.grid, rng |-> r3, n |-> c.n + 1,
                branchCount |-> IF line.carved > 0 THEN c.branchCount - 1 ELSE c.branchCount]

RECURSIVE carveRun(_, _, _, _, _)

carveRun(c, safePath, attempts, maxLen, n) ==
  IF n <= 1
  THEN carveStep(c, safePath, attempts, maxLen)
  ELSE Only({IF carveDone(half, safePath, attempts)
             THEN half
             ELSE carveRun(half, safePath, attempts, maxLen, n - (n \div 2)) :
               half \in {carveRun(c, safePath, attempts, maxLen, n \div 2)}})

\* carveBranches(grid, safePath, world, stage, rand): the grid and the
\* generator after it
carveBranches(grid, safePath, world, stage, rng) ==
  LET attempts == carveBranchCount(world, stage) * 14
  IN Only({[grid |-> c.grid, rng |-> c.rng] :
             c \in {carveRun([grid |-> grid, rng |-> rng, n |-> 0,
                              branchCount |-> carveBranchCount(world, stage)],
                             safePath, attempts, carveMaxLen(world), attempts)}})

\* placeStep that does not skip a cell that is no longer empty
placeStepOverwriting(p, symbol, count, pool) ==
  IF p.left = 0 \/ p.placed >= count
  THEN p
  ELSE LET cell == pool[p.left]
       IN [grid |-> GridSet(p.grid, cell.x, cell.y, symbol),
           left |-> p.left - 1,
           placed |-> p.placed + 1]

\* one pass of the loop of placeSymbols: a cell is popped from the end of
\* the pool (left is the number of cells still in it)
placeStep(p, symbol, count, pool) ==
  IF p.left = 0 \/ p.placed >= count
  THEN p
  ELSE LET cell == pool[p.left]
       IN IF GridAt(p.grid, cell.x, cell.y) # "."
          THEN [p EXCEPT !.left = @ - 1]
          ELSE [grid |-> GridSet(p.grid, cell.x, cell.y, symbol),
                left |-> p.left - 1,
                placed |-> p.placed + 1]

RECURSIVE placeRun(_, _, _, _, _)

placeRun(p, symbol, count, pool, n) ==
  IF n <= 1
  THEN placeStep(p, symbol, count, pool)
  ELSE Only({IF half.left = 0 \/ half.placed >= count
             THEN half
             ELSE placeRun(half, symbol, count, pool, n - (n \div 2)) :
               half \in {placeRun(p, symbol, count, pool, n \div 2)}})

\* placeSymbols(grid, symbol, count, candidates, rand): the grid and the
\* generator after it, and the number placed
placeSymbols(grid, symbol, count, candidates, rng) ==
  Only({Only({[grid |-> p.grid, rng |-> pool.rng, placed |-> p.placed] :
                p \in {placeRun([grid |-> grid, left |-> Len(pool.items), placed |-> 0],
                                symbol, count, pool.items, Len(pool.items))}}) :
          pool \in {shuffleInPlace(candidates, rng)}})

\* one pass of the inner loop of placePortalPair, at the pair i < j
bestPairStep(sample, q) ==
  IF q.i >= Len(sample)
  THEN q
  ELSE LET d == manhattan(sample[q.i], sample[q.j])
           better == d > q.dist
           last_j == q.j = Len(sample)
       IN [i |-> IF last_j THEN q.i + 1 ELSE q.i,
           j |-> IF last_j THEN q.i + 2 ELSE q.j + 1,
           dist |-> IF better THEN d ELSE q.dist,
           a |-> IF better THEN <<sample[q.i]>> ELSE q.a,
           b |-> IF better THEN <<sample[q.j]>> ELSE q.b]

RECURSIVE bestPairRun(_, _, _)

bestPairRun(sample, q, n) ==
  IF n <= 1
  THEN bestPairStep(sample, q)
  ELSE Only({IF half.i >= Len(sample)
             THEN half
             ELSE bestPairRun(sample, half, n - (n \div 2)) :
               half \in {bestPairRun(sample, q, n \div 2)}})

\* keepPortalCandidate
keepPortalCandidate(cell, spawn, exit) ==
  manhattan(cell, spawn) >= 6 /\ manhattan(cell, exit) >= 6

\* placePortalPair(grid, candidates, rand, spawn, exit): the grid, the
\* generator and the value returned
placePortalPair(grid, candidates, rng, spawn, exit) ==
  IF Len(candidates) < 2
  THEN [grid |-> grid, rng |-> rng, ret |-> FALSE]
  ELSE LET kept == SelectSeq(candidates, LAMBDA c : keepPortalCandidate(c, spawn, exit))
           filtered == IF Len(kept) < 2 THEN candidates ELSE kept
       IN Only({Only({IF best.a = <<>> \/ best.b = <<>> \/ best.dist < 8
                      THEN [grid |-> grid, rng |-> shuffled.rng, ret |-> FALSE]
                      ELSE IF GridAt(grid, best.a[1].x, best.a[1].y) # "."
                              \/ GridAt(grid, best.b[1].x, best.b[1].y) # "."
                           THEN [grid |-> grid, rng |-> shuffled.rng, ret |-> FALSE]
                           ELSE [grid |-> GridSet(GridSet(grid, best.a[1].x, best.a[1].y, "P"),
                                                  best.b[1].x, best.b[1].y, "Q"),
                                 rng |-> shuffled.rng, ret |-> TRUE] :
                        best \in {bestPairRun(
                                    SubSeq(shuffled.items, 1, Min2(Len(shuffled.items), 24)),
                                    [i |-> 1, j |-> 2, dist |-> -1, a |-> <<>>, b |-> <<>>],
                                    (Min2(Len(shuffled.items), 24)
                                       * (Min2(Len(shuffled.items), 24) - 1)) \div 2)}}) :
                  shuffled \in {shuffleInPlace(filtered, rng)}})

\* sideOpen that does not leave out the cells of the safe path
sideOpenOnRoute(grid, safePath, spawn, exit) ==
  collectCells(grid, [char \in STRING, px \in Int, py \in Int |->
    /\ char = "."
    /\ manhattan(Pt(px, py), spawn) > 2
    /\ manhattan(Pt(px, py), exit) > 2])

\* the predicate bySide / refreshSide / afterPortal of enhanceMap
sideOpen(grid, safePath, spawn, exit) ==
  LET safeSet == {safePath[i] : i \in 1 .. Len(safePath)}
  IN collectCells(grid, [char \in STRING, px \in Int, py \in Int |->
       /\ char = "."
       /\ Pt(px, py) \notin safeSet
       /\ manhattan(Pt(px, py), spawn) > 2
       /\ manhattan(Pt(px, py), exit) > 2])

obstacleBudget(world, stage) ==
  Max2(0, world - 3) + (stage \div 3)
    + (IF world >= 7 THEN 2 + (stage \div 2) ELSE 0) + (IF world >= 9 THEN 2 ELSE 0)

usePortal(world, stage) == (world >= 2 /\ stage % 2 = 0) \/ world >= 5 \/ stage = 10

normalGrowth(world, stage) == Min2(16, 5 + world + (stage \div 2))

bigGrowth(world, stage) == IF world >= 2 THEN Min2(5, 1 + ((world + stage) \div 5)) ELSE 0

starCount(world) == IF world >= 9 THEN 3 ELSE IF world >= 6 THEN 2 ELSE IF world >= 3 THEN 1 ELSE 0

\* the seed enhanceMap gives createRng
levelSeed(world, stage) == world * 100003 + stage * 17011 + 97


\* enhanceMap up to the first bfsPath: the template is returned as it is
\* when it has no route from the spawn to the exit.  The fields are the
\* locals of enhanceMap (sideOpen is the list the variable sideOpen holds);
\* carved, candidates, portalPlaced, beforePortal and afterPortal record
\* the grid after carving, the arguments and the value of the call of
\* placePortalPair and the grid before and after it.
enhanceMapStart(baseRows, world, stage) ==
  Only({[phase |-> IF safePath = <<>> THEN "done" ELSE "carve",
         baseRows |-> baseRows, world |-> world, stage |-> stage,
         rng |-> createRng(levelSeed(world, stage)), grid |-> baseRows,
         spawn |-> findChar(baseRows, "S"), exit |-> findChar(baseRows, "E"),
         safePath |-> safePath, sideOpen |-> <<>>, carved |-> baseRows,
         candidates |-> <<>>, portalPlaced |-> FALSE,
         beforePortal |-> baseRows, afterPortal |-> baseRows,
         result |-> IF safePath = <<>> THEN <<baseRows>> ELSE <<>>] :
          safePath \in {bfsPath(baseRows, findChar(baseRows, "S"), findChar(baseRows, "E"))}})

\* carveBranches, the second bfsPath and the first sideOpen
enhanceMapCarve(e) ==
  Only({Only({IF safePath = <<>>
              THEN [e EXCEPT !.phase = "done", !.grid = cut.grid, !.rng = cut.rng,
                             !.carved = cut.grid, !.safePath = safePath,
                             !.result = <<e.baseRows>>]
              ELSE [e EXCEPT !.phase = "obstacles", !.grid = cut.grid, !.rng = cut.rng,
                             !.carved = cut.grid, !.safePath = safePath,
                             !.sideOpen = sideOpen(cut.grid, safePath, e.spawn[1], e.exit[1]),
                             !.beforePortal = cut.grid, !.afterPortal = cut.grid] :
                safePath \in {bfsPath(cut.grid, e.spawn, e.exit)}}) :
          cut \in {carveBranches(e.grid, e.safePath, e.world, e.stage, e.rng)}})

\* the decoy obstacles, and sideOpen again
enhanceMapObstacles(e) ==
  Only({[e EXCEPT !.phase = "portals", !.grid = put.grid, !.rng = put.rng,
                  !.sideOpen = sideOpen(put.grid, e.safePath, e.spawn[1], e.exit[1]),
                  !.beforePortal = put.grid, !.afterPortal = put.grid] :
          put \in {placeSymbols(e.grid, "X", obstacleBudget(e.world, e.stage),
                                e.sideOpen, e.rng)}})

\* the portal pair, and sideOpen again
enhanceMapPortals(e) ==
  Only({[e EXCEPT !.phase = "items", !.grid = pair.grid, !.rng = pair.rng,
                  !.candidates = IF usePortal(e.world, e.stage) THEN e.sideOpen ELSE <<>>,
                  !.portalPlaced = pair.ret,
                  !.afterPortal = pair.grid,
                  !.sideOpen = sideOpen(pair.grid, e.safePath, e.spawn[1], e.exit[1])] :
          pair \in {IF usePortal(e.world, e.stage)
                    THEN placePortalPair(e.grid, e.sideOpen, e.rng, e.spawn[1], e.exit[1])
                    ELSE [grid |-> e.grid, rng |-> e.rng, ret |-> FALSE]}})

\* the growth items
enhanceMapItems(e) ==
  Only({[e EXCEPT !.phase = "bigItems", !.grid = put.grid, !.rng = put.rng] :
          put \in {placeSymbols(e.grid, "I", normalGrowth(e.world, e.stage),
                                e.sideOpen, e.rng)}})

\* the big growth items
enhanceMapBigItems(e) ==
  Only({[e EXCEPT !.phase = "stars", !.grid = put.grid, !.rng = put.rng] :
          put \in {placeSymbols(e.grid, "G", bigGrowth(e.world, e.stage),
                                e.sideOpen, e.rng)}})

\* the stars, and the return of the grid
enhanceMapStars(e) ==
  Only({[e EXCEPT !.phase = "done", !.grid = put.grid, !.rng = put.rng,
                  !.result = <<put.grid>>] :
          put \in {placeSymbols(e.grid, "T", starCount(e.world), e.sideOpen, e.rng)}})

RECURSIVE enhanceMapRun(_)

\* enhanceMap from the point e onwards
enhanceMapRun(e) ==
  IF e.phase = "done"
  THEN e
  ELSE Only({enhanceMapRun(next) :
               next \in {IF e.phase = "carve" THEN enhanceMapCarve(e)
                         ELSE IF e.phase = "obstacles" THEN enhanceMapObstacles(e)
                         ELSE IF e.phase = "portals" THEN enhanceMapPortals(e)
                         ELSE IF e.phase = "items" THEN enhanceMapItems(e)
                         ELSE IF e.phase = "bigItems" THEN enhanceMapBigItems(e)
                         ELSE enhanceMapStars(e)}})

\* enhanceMap(baseRows, world, stage)
enhanceMap(baseRows, world, stage) ==
  Only({enhanceMapRun(start).result[1] : start \in {enhanceMapStart(baseRows, world, stage)}})

\* the object buildLevelDef returns for a map
levelDefOf(world, stage, map) ==
  [id |-> (world - 1) * 10 + stage,
   world |-> world,
   stage |-> stage,
   snakeLength |-> IF world >= 9 THEN 2 ELSE 1,
   map |-> map]

\* buildLevelDef(world, stage): the level definition of one shipped level
buildLevelDef(world, stage) ==
  levelDefOf(world, stage, enhanceMap(BASE_STAGE_DEFS[stage].map, world, stage))

(***************************************************************************)
(* levels.js: level definitions and parseMap.  A map is a sequence of      *)
(* rows, a row a sequence of one-character symbols.  The level set the     *)
(* game is played on is two small well-formed maps (one spawn, one exit)   *)
(* that between them hold every tile kind, walled in to the size of the    *)
(* board.                                                                  *)
(***************************************************************************)
\* the rows of a small map, filled up to the board with wall
WalledIn(rows) ==
  [py \in 1 .. GRID_ROWS |-> [px \in 1 .. GRID_COLS |->
     IF py <= Len(rows) /\ px <= Len(rows[py]) THEN rows[py][px] ELSE "#"]]

LevelDefs ==
  << [id |-> 1, snakeLength |-> 1,
      map |-> WalledIn(<< <<"#", "#", "#", "#", "#", "#">>,
                          <<"#", "S", "I", "G", "E", "#">>,
                          <<"#", ".", "#", "#", "#", "#">>,
                          <<"#", "#", "#", "#", "#", "#">> >>)],
     [id |-> 2, snakeLength |-> 2,
      map |-> WalledIn(<< <<"#", "#", "#", "#", "#", "#">>,
                          <<"#", "S", "T", "X", "E", "#">>,
                          <<"#", "P", "Q", "P", ".", "#">>,
                          <<"#", "#", "#", "#", "#", "#">> >>)] >>

Rows == 0 .. (GRID_ROWS - 1)

Cols == 0 .. (GRID_COLS - 1)

Cells == {Pt(cx, cy) : cx \in Cols, cy \in Rows}

\* a call that throws an Error, and a call that returns a value
Thrown(message) == [error |-> message, value |-> <<>>]

Returned(result) == [error |-> "", value |-> <<result>>]

\* charToTile that takes an unknown symbol for an empty cell
charToTileLenient(char) ==
  CASE char = "#" -> Returned(TILE_WALL)
    [] char = "E" -> Returned(TILE_EXIT)
    [] char = "X" -> Returned(TILE_OBSTACLE)
    [] char = "S" -> Returned(TILE_SPAWN)
    [] char = "I" -> Returned(TILE_ITEM)
    [] char = "G" -> Returned(TILE_BIG_ITEM)
    [] char = "T" -> Returned(TILE_STAR_ITEM)
    [] char = "P" -> Returned(TILE_PORTAL_A)
    [] char = "Q" -> Returned(TILE_PORTAL_B)
    [] OTHER -> Returned(TILE_EMPTY)

charToTile(char) ==
  CASE char = "." -> Returned(TILE_EMPTY)
    [] char = "#" -> Returned(TILE_WALL)
    [] char = "E" -> Returned(TILE_EXIT)
    [] char = "X" -> Returned(TILE_OBSTACLE)
    [] char = "S" -> Returned(TILE_SPAWN)
    [] char = "I" -> Returned(TILE_ITEM)
    [] char = "G" -> Returned(TILE_BIG_ITEM)
    [] char = "T" -> Returned(TILE_STAR_ITEM)
    [] char = "P" -> Returned(TILE_PORTAL_A)
    [] char = "Q" -> Returned(TILE_PORTAL_B)
    [] OTHER -> Thrown("Unknown map symbol")

\* the least member of a non-empty set of numbers
Least(S) == CHOOSE n \in S : \A m \in S : n <= m

\* one pass of the loop over y of parseMap, for the row y with the spawn
\* found in the rows above it (<<>> for null): the error thrown in the row,
\* or the tiles of the row, the spawn and the number of exits in the row.
\* The first column at which the scan of the row throws is the first
\* unknown symbol or the first spawn symbol that is not the first spawn of
\* the map, whichever comes first.
parseMapRow(row, py, spawn) ==
  IF Len(row) # GRID_COLS
  THEN Thrown("must have GRID_COLS cols")
  ELSE Only({
         LET unknown == {px \in Cols : tile[px].error # ""}
             spawns == {px \in Cols : tile[px].error = "" /\ tile[px].value[1] = TILE_SPAWN}
             second == IF spawn # <<>> \/ spawns = {}
                       THEN spawns
                       ELSE spawns \ {Least(spawns)}
         IN Only({
              IF faults # {}
              THEN IF Least(faults) \in unknown
                   THEN tile[Least(faults)]
                   ELSE Thrown("has multiple spawn points")
              ELSE Returned(
                     [tileRow |-> [px \in Cols |->
                                     IF tile[px].value[1] = TILE_SPAWN
                                     THEN TILE_EMPTY
                                     ELSE tile[px].value[1]],
                      spawn |-> IF spawns = {} THEN spawn ELSE <<Pt(Least(spawns), py)>>,
                      exitCount |-> Cardinality({px \in Cols :
                                       tile[px].value[1] = TILE_EXIT})]) :
                faults \in {unknown \cup second}}) :
           tile \in {[px \in Cols |-> charToTile(row[px + 1])]}})

RECURSIVE parseMapRows(_, _, _)

\* the loop over y of parseMap from the row py on; scanned holds the
\* tiles, the spawn and the number of exits of the rows above
parseMapRows(levelDef, py, scanned) ==
  IF py = GRID_ROWS
  THEN Returned(scanned)
  ELSE Only({IF row.error # ""
             THEN row
             ELSE parseMapRows(levelDef, py + 1,
                               [tiles |-> Append(scanned.tiles, row.value[1].tileRow),
                                spawn |-> row.value[1].spawn,
                                exitCount |-> scanned.exitCount + row.value[1].exitCount]) :
               row \in {parseMapRow(levelDef.map[py + 1], py, scanned.spawn)}})

\* parseMap: the spawn symbol is recorded and its tile rewritten to Empty
parseMap(levelDef) ==
  IF "map" \notin DOMAIN levelDef
  THEN Thrown("Invalid level definition.")
  ELSE IF Len(levelDef.map) # GRID_ROWS
  THEN Thrown("must have GRID_ROWS rows")
  ELSE Only({IF scan.error # ""
             THEN scan
             ELSE IF scan.value[1].spawn = <<>>
             THEN Thrown("is missing a spawn point")
             ELSE IF scan.value[1].exitCount = 0
             THEN Thrown("is missing an exit")
             ELSE Returned([id |-> levelDef.id,
                            snakeLength |-> levelDef.snakeLength,
                            spawn |-> scan.value[1].spawn[1],
                            tiles |-> [cy \in Rows |-> scan.value[1].tiles[cy + 1]]]) :
               scan \in {parseMapRows(levelDef, 0,
                                      [tiles |-> <<>>, spawn |-> <<>>, exitCount |-> 0])}})

\* LEVELS = levelSource.map(parseMap)
LEVELS == [i \in 0 .. (Len(LevelDefs) - 1) |-> parseMap(LevelDefs[i + 1]).value[1]]

NumLevels == Len(LevelDefs)

LevelIndexes == 0 .. (NumLevels - 1)

(***************************************************************************)
(* snake.js                                                                *)
(***************************************************************************)
\* isWalkable(tiles, x, y) of snake.js
SnakeIsWalkable(tiles, px, py) ==
  IF px < 0 \/ py < 0 \/ px >= GRID_COLS \/ py >= GRID_ROWS
  THEN FALSE
  ELSE tiles[py][px] # TILE_WALL /\ tiles[py][px] # TILE_OBSTACLE

\* the search order of buildInitialSegments
BaseOrder == <<"right", "down", "left", "up">>

Step(p, d) == Pt(p.x + DIRECTIONS[d].x, p.y + DIRECTIONS[d].y)

countOpenNeighbors(tiles, visited, p) ==
  Cardinality({i \in 1 .. 4 :
     LET n == Step(p, BaseOrder[i])
     IN SnakeIsWalkable(tiles, n.x, n.y) /\ n \notin visited})

\* options that forget which cells the path has been on
DfsOptionsRevisiting(tiles, visited, p) ==
  SelectSeq(BaseOrder, LAMBDA d : SnakeIsWalkable(tiles, Step(p, d).x, Step(p, d).y))

\* the unvisited walkable neighbours of p in base order
DfsOptions(tiles, visited, p) ==
  SelectSeq(BaseOrder, LAMBDA d :
     LET n == Step(p, d)
     IN n \notin visited /\ SnakeIsWalkable(tiles, n.x, n.y))

\* options.sort by descending score; Array.prototype.sort is stable
SortByOpenness(tiles, visited, p, options) ==
  LET score(d) == countOpenNeighbors(tiles, visited, Step(p, d))
      WithScore(s) == SelectSeq(options, LAMBDA d : score(d) = s)
  IN WithScore(4) \o WithScore(3) \o WithScore(2) \o WithScore(1) \o WithScore(0)

RECURSIVE dfs(_, _, _, _)
RECURSIVE dfsTry(_, _, _, _, _, _)

\* dfs(x, y): the path when the search succeeds, <<>> when it fails
dfs(tiles, length, path, visited) ==
  IF Len(path) >= length
  THEN path
  ELSE LET p == path[Len(path)]
           options == SortByOpenness(tiles, visited, p, DfsOptions(tiles, visited, p))
       IN dfsTry(tiles, length, path, visited, options, 1)

dfsTry(tiles, length, path, visited, options, j) ==
  IF j > Len(options)
  THEN <<>>
  ELSE LET n == Step(path[Len(path)], options[j])
           found == dfs(tiles, length, Append(path, n), visited \cup {n})
       IN IF found # <<>>
          THEN found
          ELSE dfsTry(tiles, length, path, visited, options, j + 1)

RECURSIVE PadPath(_, _)

PadPath(path, length) ==
  IF Len(path) >= length THEN path ELSE PadPath(Append(path, path[Len(path)]), length)

buildInitialSegments(spawn, length, tiles) ==
  LET found == dfs(tiles, length, <<spawn>>, {spawn})
  IN PadPath(IF found = <<>> THEN <<spawn>> ELSE found, length)

\* Snake.prototype.move: unshift the next head, pop the tail
SnakeMove(segs, directionName) ==
  IF directionName \notin DirectionNames
  THEN segs
  ELSE <<Step(segs[1], directionName)>> \o SubSeq(segs, 1, Len(segs) - 1)

\* Snake.prototype.growByTailPosition; tailPosition is <<>> or <<point>>
growByTailPosition(segs, tailPosition) ==
  Append(segs, IF tailPosition = <<>> THEN segs[Len(segs)] ELSE tailPosition[1])

\* new Snake(spawn, length, tiles)
Snake(spawn, length, tiles) ==
  [segments |-> buildInitialSegments(spawn, length, tiles), direction |-> "right"]

\* a move that shifts the segments and keeps the facing
Snake_moveKeepingFacing(s, directionName) ==
  [s EXCEPT !.segments = SnakeMove(@, directionName)]

\* Snake.prototype.move on the object: the segments and the facing
Snake_move(s, directionName) ==
  IF directionName \notin DirectionNames
  THEN s
  ELSE [s EXCEPT !.segments = SnakeMove(@, directionName), !.direction = directionName]

(***************************************************************************)
(* game.js: the Game fields                                                *)
(***************************************************************************)
VARIABLES
  state,                  \* this.state
  levelIndex,             \* this.levelIndex
  unlockedLevelIndex,     \* this.unlockedLevelIndex
  loaded,                 \* this.currentLevel !== null (and this.snake !== null)
  tiles,                  \* this.currentLevel.tiles, the playable copy
  segments,               \* this.snake.segments, head first
  direction,              \* this.snake.direction
  moveCount,              \* this.moveCount
  totalMoveCount,         \* this.totalMoveCount
  history,                \* this.history, oldest first
  discardedHistoryCount,  \* this.discardedHistoryCount
  animationTimeMs,        \* this.animationTimeMs
  moveAnimation,          \* this.moveAnimation: <<>> or <<[startAt, duration]>>
  bestMoves,              \* this.bestMoves, by level id; 0 is "no best yet"
  progressClears,         \* this.progressClears
  eventQueue,             \* this.eventQueue
  deadlockHintUntil,      \* this.deadlockHintUntil
  levelCollectedItems,    \* this.levelCollectedItems
  levelTotalItems,        \* this.levelTotalItems
  totalItemsCollected,    \* this.totalItemsCollected
  levelStartSegments,     \* this.levelStartSegments
  levelStartTiles,        \* this.levelStartTiles
  starMovesRemaining,     \* this.starMovesRemaining
  portalLinks,            \* this.portalLinks
  settings,               \* this.settings (reduceMotion, resetProgressOnNewGame,
                          \* customBindings)
  keyMap,                 \* this.keyMap
  last,                   \* was the last command a tryMove, and what it returned
  verifier,               \* one call of solveLevel: its locals and its result
  generator,              \* one call of enhanceMap: its locals and its result
  parser,                 \* one call of parseMap: its argument and its outcome
  storage,                \* localStorage as the constructor found it
  snakeCall,              \* one Snake object on its own, and the arguments it was made from
  replay                  \* this.replayLog.moves and this.replayArchive of the level in play

vars ==
  <<state, levelIndex, unlockedLevelIndex, loaded, tiles, segments, direction,
    moveCount, totalMoveCount, history, discardedHistoryCount, animationTimeMs,
    moveAnimation, bestMoves, progressClears, eventQueue,
    deadlockHintUntil, levelCollectedItems, levelTotalItems, totalItemsCollected,
    levelStartSegments, levelStartTiles, starMovesRemaining, portalLinks,
    settings, keyMap, last, verifier, generator, parser, storage, snakeCall, replay>>

\* the Game fields, without the record of the last command
gameVars ==
  <<state, levelIndex, unlockedLevelIndex, loaded, tiles, segments, direction,
    moveCount, totalMoveCount, history, discardedHistoryCount, animationTimeMs,
    moveAnimation, bestMoves, progressClears, eventQueue,
    deadlockHintUntil, levelCollectedItems, levelTotalItems, totalItemsCollected,
    levelStartSegments, levelStartTiles, starMovesRemaining, portalLinks,
    settings, keyMap>>

\* the Game object as one record, so that sub-methods compose as in the source
This ==
  [state |-> state, levelIndex |-> levelIndex,
   unlockedLevelIndex |-> unlockedLevelIndex, loaded |-> loaded, tiles |-> tiles,
   segments |-> segments, direction |-> direction, moveCount |-> moveCount,
   totalMoveCount |-> totalMoveCount, history |-> history,
   discardedHistoryCount |-> discardedHistoryCount,
   animationTimeMs |-> animationTimeMs, moveAnimation |-> moveAnimation,
   bestMoves |-> bestMoves,
   progressClears |-> progressClears, eventQueue |-> eventQueue,
   deadlockHintUntil |-> deadlockHintUntil,
   levelCollectedItems |-> levelCollectedItems,
   levelTotalItems |-> levelTotalItems,
   totalItemsCollected |-> totalItemsCollected,
   levelStartSegments |-> levelStartSegments,
   levelStartTiles |-> levelStartTiles,
   starMovesRemaining |-> starMovesRemaining, portalLinks |-> portalLinks,
   settings |-> settings, keyMap |-> keyMap]

\* the fields of g become the next state
Becomes(g) ==
  /\ state' = g.state
  /\ levelIndex' = g.levelIndex
  /\ unlockedLevelIndex' = g.unlockedLevelIndex
  /\ loaded' = g.loaded
  /\ tiles' = g.tiles
  /\ segments' = g.segments
  /\ direction' = g.direction
  /\ moveCount' = g.moveCount
  /\ totalMoveCount' = g.totalMoveCount
  /\ history' = g.history
  /\ discardedHistoryCount' = g.discardedHistoryCount
  /\ animationTimeMs' = g.animationTimeMs
  /\ moveAnimation' = g.moveAnimation
  /\ bestMoves' = g.bestMoves
  /\ progressClears' = g.progressClears
  /\ eventQueue' = g.eventQueue
  /\ deadlockHintUntil' = g.deadlockHintUntil
  /\ levelCollectedItems' = g.levelCollectedItems
  /\ levelTotalItems' = g.levelTotalItems
  /\ totalItemsCollected' = g.totalItemsCollected
  /\ levelStartSegments' = g.levelStartSegments
  /\ levelStartTiles' = g.levelStartTiles
  /\ starMovesRemaining' = g.starMovesRemaining
  /\ portalLinks' = g.portalLinks
  /\ settings' = g.settings
  /\ keyMap' = g.keyMap

\* the Game fields are those of g
Is(g) ==
  /\ state = g.state
  /\ levelIndex = g.levelIndex
  /\ unlockedLevelIndex = g.unlockedLevelIndex
  /\ loaded = g.loaded
  /\ tiles = g.tiles
  /\ segments = g.segments
  /\ direction = g.direction
  /\ moveCount = g.moveCount
  /\ totalMoveCount = g.totalMoveCount
  /\ history = g.history
  /\ discardedHistoryCount = g.discardedHistoryCount
  /\ animationTimeMs = g.animationTimeMs
  /\ moveAnimation = g.moveAnimation
  /\ bestMoves = g.bestMoves
  /\ progressClears = g.progressClears
  /\ eventQueue = g.eventQueue
  /\ deadlockHintUntil = g.deadlockHintUntil
  /\ levelCollectedItems = g.levelCollectedItems
  /\ levelTotalItems = g.levelTotalItems
  /\ totalItemsCollected = g.totalItemsCollected
  /\ levelStartSegments = g.levelStartSegments
  /\ levelStartTiles = g.levelStartTiles
  /\ starMovesRemaining = g.starMovesRemaining
  /\ portalLinks = g.portalLinks
  /\ settings = g.settings
  /\ keyMap = g.keyMap

NoTiles == [cy \in Rows |-> [cx \in Cols |-> TILE_WALL]]

NoLinks == [p \in {} |-> p]

\* Object.keys(DEFAULT_KEY_BINDINGS), in the order of the literal
ActionNames ==
  <<"move_up", "move_down", "move_left", "move_right", "undo", "restart",
    "pause", "next", "start", "level_select">>

DEFAULT_KEY_BINDINGS ==
  [move_up |-> <<"arrowup", "w">>, move_down |-> <<"arrowdown", "s">>,
   move_left |-> <<"arrowleft", "a">>, move_right |-> <<"arrowright", "d">>,
   undo |-> <<"z">>, restart |-> <<"r">>, pause |-> <<"p", "escape">>,
   next |-> <<"n">>, start |-> <<"enter", " ">>, level_select |-> <<"l">>]

\* DEFAULT_SETTINGS.customBindings: "start" has no slot
DefaultCustomBindings ==
  [move_up |-> "", move_down |-> "", move_left |-> "", move_right |-> "",
   undo |-> "", restart |-> "", pause |-> "", next |-> "", level_select |-> ""]

\* String.prototype.toLowerCase on the key tokens of this model
toLowerCase(text) ==
  CASE text = "U" -> "u"
    [] text = "R" -> "r"
    [] text = "Enter" -> "enter"
    [] OTHER -> text

normalizeKeyToken(rawKey) == IF rawKey = "" THEN "" ELSE toLowerCase(rawKey)

\* register(token, action) of buildKeyMap
register(map, token, action) ==
  IF token = ""
  THEN map
  ELSE [t \in DOMAIN map \cup {token} |-> IF t = token THEN action ELSE map[t]]

RECURSIVE registerDefaults(_, _, _, _)

\* the inner loop of buildKeyMap, from the j-th default of the action on
registerDefaults(map, defaults, j, action) ==
  IF j > Len(defaults)
  THEN map
  ELSE registerDefaults(register(map, defaults[j], action), defaults, j + 1, action)

\* one pass of the outer loop of buildKeyMap: the defaults of the action,
\* then its custom token
registerAction(map, customBindings, action) ==
  Only({IF action \in DOMAIN customBindings
        THEN register(withDefaults, customBindings[action], action)
        ELSE withDefaults :
          withDefaults \in {registerDefaults(map, DEFAULT_KEY_BINDINGS[action], 1, action)}})

RECURSIVE buildKeyMapFrom(_, _, _)

buildKeyMapFrom(map, customBindings, i) ==
  IF i > Len(ActionNames)
  THEN map
  ELSE buildKeyMapFrom(registerAction(map, customBindings, ActionNames[i]),
                       customBindings, i + 1)

\* buildKeyMap, from this.settings.customBindings
buildKeyMap(customBindings) == buildKeyMapFrom([t \in {} |-> t], customBindings, 1)

\* the progress documents found in storage, as JSON.parse returns them: a
\* field is <<>> when the object has no such property, bestMoves is by level
\* id with 0 for "no such property"
NoProgress ==
  [unlockedLevelIndex |-> <<>>, bestMoves |-> <<>>, totalMoves |-> <<>>,
   clears |-> <<>>, totalItems |-> <<>>]

PrimaryProgress ==
  [unlockedLevelIndex |-> <<1>>,
   bestMoves |-> <<[i \in 1 .. NumLevels |-> IF i = 1 THEN 5 ELSE 2]>>,
   totalMoves |-> <<>>, clears |-> <<2>>, totalItems |-> <<1>>]

BackupProgress ==
  [unlockedLevelIndex |-> <<7>>,
   bestMoves |-> <<[i \in 1 .. NumLevels |-> IF i = 1 THEN 3 ELSE 0]>>,
   totalMoves |-> <<-4>>, clears |-> <<1>>, totalItems |-> <<>>]

PrimaryText ==
  "{\"unlockedLevelIndex\":1,\"bestMoves\":{\"1\":5,\"2\":2},\"clears\":2,\"totalItems\":1}"

BackupText ==
  "{\"unlockedLevelIndex\":7,\"bestMoves\":{\"1\":3},\"totalMoves\":-4,\"clears\":1}"

\* JSON.parse on the texts that are stored in this model
JSON_parse(text) ==
  CASE text = PrimaryText -> Returned([kind |-> "object", fields |-> PrimaryProgress])
    [] text = BackupText -> Returned([kind |-> "object", fields |-> BackupProgress])
    [] text = "[]" -> Returned([kind |-> "object", fields |-> NoProgress])
    [] text = "null" -> Returned([kind |-> "null"])
    [] text = "7" -> Returned([kind |-> "number"])
    [] OTHER -> Thrown("SyntaxError")

\* Number.parseInt(text, 10): <<>> is NaN
parseInt(text) ==
  CASE text = "1" -> <<1>>
    [] text = "7" -> <<7>>
    [] text = "-2" -> <<0 - 2>>
    [] OTHER -> <<>>

\* Number(value) || 0 for a property that is a number or is not there
NumberOr0(field) == IF field = <<>> THEN 0 ELSE field[1]

\* localStorage.getItem: <<>> is null
getItem(store, key) == store[key]

\* a default progress record that takes on what a parsed document holds; a
\* value that is not an object leaves it as it is
fillProgress(fallback, parsed) ==
  IF parsed.kind # "object"
  THEN fallback
  ELSE [unlockedLevelIndex |->
          clamp(NumberOr0(parsed.fields.unlockedLevelIndex), 0, NumLevels - 1),
        bestMoves |-> IF parsed.fields.bestMoves = <<>>
                      THEN fallback.bestMoves
                      ELSE parsed.fields.bestMoves[1],
        totalMoves |-> Max2(0, NumberOr0(parsed.fields.totalMoves)),
        clears |-> Max2(0, NumberOr0(parsed.fields.clears)),
        totalItems |-> Max2(0, NumberOr0(parsed.fields.totalItems))]

\* the fallback of loadProgressData
DefaultProgress ==
  [unlockedLevelIndex |-> 0, bestMoves |-> [i \in 1 .. NumLevels |-> 0],
   totalMoves |-> 0, clears |-> 0, totalItems |-> 0]

\* loadProgressData; a getItem on a storage that cannot be read throws
loadProgressData(store) ==
  IF ~store.readable
  THEN DefaultProgress
  ELSE LET primary == getItem(store, "wormPuzzleProgress")
           backup == getItem(store, "wormPuzzleProgressBackup")
           legacyRaw == getItem(store, "wormPuzzleProgressLevel")
           raw == IF primary = <<>> \/ primary[1] = "" THEN backup ELSE primary
       IN IF raw = <<>> \/ raw[1] = ""
          THEN IF legacyRaw # <<>> /\ parseInt(legacyRaw[1]) # <<>>
               THEN [DefaultProgress EXCEPT !.unlockedLevelIndex =
                       clamp(parseInt(legacyRaw[1])[1], 0, NumLevels - 1)]
               ELSE DefaultProgress
          ELSE IF JSON_parse(raw[1]).error = ""
               THEN fillProgress(DefaultProgress, JSON_parse(raw[1]).value[1])
               ELSE IF backup = <<>> \/ backup[1] = "" \/ JSON_parse(backup[1]).error # ""
                    THEN DefaultProgress
                    ELSE fillProgress(DefaultProgress, JSON_parse(backup[1]).value[1])

\* a storage that holds nothing
EmptyStorage ==
  [readable |-> TRUE, wormPuzzleProgress |-> <<>>, wormPuzzleProgressBackup |-> <<>>,
   wormPuzzleProgressLevel |-> <<>>]

\* new Game() on empty storage
Game(reduceMotion) ==
  [state |-> "title", levelIndex |-> 0, unlockedLevelIndex |-> 0,
   loaded |-> FALSE, tiles |-> NoTiles, segments |-> <<>>, direction |-> "right",
   moveCount |-> 0, totalMoveCount |-> 0, history |-> <<>>,
   discardedHistoryCount |-> 0, animationTimeMs |-> 0, moveAnimation |-> <<>>,
   bestMoves |-> [i \in 1 .. NumLevels |-> 0],
   progressClears |-> 0, eventQueue |-> <<>>, deadlockHintUntil |-> 0,
   levelCollectedItems |-> 0, levelTotalItems |-> 0, totalItemsCollected |-> 0,
   levelStartSegments |-> <<>>, levelStartTiles |-> NoTiles,
   starMovesRemaining |-> 0, portalLinks |-> NoLinks,
   settings |-> [reduceMotion |-> reduceMotion, resetProgressOnNewGame |-> FALSE,
                 customBindings |-> DefaultCustomBindings],
   keyMap |-> buildKeyMap(DefaultCustomBindings)]

\* new Game() on the storage: the progress fields are those of loadProgressData
WormPuzzleGame(store, reduceMotion) ==
  Only({[Game(reduceMotion) EXCEPT
           !.unlockedLevelIndex = clamp(progressData.unlockedLevelIndex, 0, NumLevels - 1),
           !.levelIndex = clamp(progressData.unlockedLevelIndex, 0, NumLevels - 1),
           !.bestMoves = progressData.bestMoves,
           !.totalMoveCount = progressData.totalMoves,
           !.progressClears = progressData.clears,
           !.totalItemsCollected = progressData.totalItems] :
          progressData \in {loadProgressData(store)}})

emit(g, type, payload) ==
  [g EXCEPT !.eventQueue = Append(@, [type |-> type, payload |-> payload])]

\* a save that swallows the failure of the write
saveProgressDataSilently(g, storageOk) == g

\* saveProgressData: a failing storage write is caught and reported
saveProgressData(g, storageOk) ==
  IF storageOk THEN g ELSE emit(g, "storage_error", [operation |-> "save_progress"])

clearProgress(g, storageOk) ==
  saveProgressData(
    [g EXCEPT !.unlockedLevelIndex = 0,
              !.bestMoves = [i \in 1 .. NumLevels |-> 0],
              !.totalMoveCount = 0,
              !.progressClears = 0,
              !.totalItemsCollected = 0],
    storageOk)

isTransitionAllowed(g, next) ==
  next \in STATE_TRANSITIONS[g.state] \/ next = g.state

\* a state setter that does not consult the transition table
setStateUnchecked(g, next) == [g |-> [g EXCEPT !.state = next], ret |-> TRUE]

setState(g, next) ==
  IF ~isTransitionAllowed(g, next)
  THEN [g |-> g, ret |-> FALSE]
  ELSE [g |-> [g EXCEPT !.state = next], ret |-> TRUE]

\* the first cell in row-major order that holds the tile kind: <<>> or <<cell>>
FirstCell(t, kind) ==
  LET found == {c \in Cells : t[c.y][c.x] = kind}
  IN IF found = {}
     THEN <<>>
     ELSE <<CHOOSE c \in found :
              \A o \in found : c.y < o.y \/ (c.y = o.y /\ c.x <= o.x)>>

\* a link table that leads from the first PortalA to the first PortalB only
buildPortalLinksOneWay(t) ==
  LET firstA == FirstCell(t, TILE_PORTAL_A)
      firstB == FirstCell(t, TILE_PORTAL_B)
  IN IF firstA # <<>> /\ firstB # <<>>
     THEN [p \in {firstA[1]} |-> firstB[1]]
     ELSE NoLinks

buildPortalLinks(t) ==
  LET firstA == FirstCell(t, TILE_PORTAL_A)
      firstB == FirstCell(t, TILE_PORTAL_B)
  IN IF firstA # <<>> /\ firstB # <<>>
     THEN [p \in {firstA[1], firstB[1]} |-> IF p = firstA[1] THEN firstB[1] ELSE firstA[1]]
     ELSE NoLinks

\* getPortalDestination: <<>> or <<cell>>
getPortalDestination(g, px, py) ==
  IF Pt(px, py) \in DOMAIN g.portalLinks THEN <<g.portalLinks[Pt(px, py)]>> ELSE <<>>

countItemsInCurrentLevel(t) ==
  Cardinality({c \in Cells : t[c.y][c.x] \in {TILE_ITEM, TILE_BIG_ITEM}})

\* a load that hands out the grid already in play instead of a copy of the
\* template's rows
loadLevelUncloned(g, index) ==
  LET normalized == clamp(index, 0, NumLevels - 1)
      baseLevel == LEVELS[normalized]
      played == IF g.loaded /\ g.levelIndex = normalized THEN g.tiles ELSE baseLevel.tiles
      snake == buildInitialSegments(baseLevel.spawn, baseLevel.snakeLength, played)
  IN [g EXCEPT !.levelIndex = normalized,
               !.loaded = TRUE,
               !.tiles = played,
               !.segments = snake,
               !.direction = "right",
               !.moveCount = 0,
               !.history = <<>>,
               !.discardedHistoryCount = 0,
               !.moveAnimation = <<>>,
               !.deadlockHintUntil = 0,
               !.levelCollectedItems = 0,
               !.levelTotalItems = countItemsInCurrentLevel(played),
               !.starMovesRemaining = 0,
               !.portalLinks = buildPortalLinks(played),
               !.levelStartSegments = snake,
               !.levelStartTiles = played]

loadLevel(g, index) ==
  LET normalized == clamp(index, 0, NumLevels - 1)
      baseLevel == LEVELS[normalized]
      snake == buildInitialSegments(baseLevel.spawn, baseLevel.snakeLength, baseLevel.tiles)
  IN [g EXCEPT !.levelIndex = normalized,
               !.loaded = TRUE,
               !.tiles = baseLevel.tiles,
               !.segments = snake,
               !.direction = "right",
               !.moveCount = 0,
               !.history = <<>>,
               !.discardedHistoryCount = 0,
               !.moveAnimation = <<>>,
               !.deadlockHintUntil = 0,
               !.levelCollectedItems = 0,
               !.levelTotalItems = countItemsInCurrentLevel(baseLevel.tiles),
               !.starMovesRemaining = 0,
               !.portalLinks = buildPortalLinks(baseLevel.tiles),
               !.levelStartSegments = snake,
               !.levelStartTiles = baseLevel.tiles]

\* loadLevel of a game whose this.levels is the given list
loadLevelFrom(levels, g, index) ==
  LET normalized == clamp(index, 0, Len(levels) - 1)
      baseLevel == levels[normalized + 1]
      snake == buildInitialSegments(baseLevel.spawn, baseLevel.snakeLength, baseLevel.tiles)
  IN [g EXCEPT !.levelIndex = normalized,
               !.loaded = TRUE,
               !.tiles = baseLevel.tiles,
               !.segments = snake,
               !.direction = "right",
               !.moveCount = 0,
               !.history = <<>>,
               !.discardedHistoryCount = 0,
               !.moveAnimation = <<>>,
               !.deadlockHintUntil = 0,
               !.levelCollectedItems = 0,
               !.levelTotalItems = countItemsInCurrentLevel(baseLevel.tiles),
               !.starMovesRemaining = 0,
               !.portalLinks = buildPortalLinks(baseLevel.tiles),
               !.levelStartSegments = snake,
               !.levelStartTiles = baseLevel.tiles]

isStarActive(g) == g.starMovesRemaining > 0

\* an entry rule that lets the snake through obstacles without star power
canEnterTileTypeNoObstacle(g, tileType) == tileType # TILE_WALL

canEnterTileType(g, tileType) ==
  IF tileType = TILE_WALL
  THEN FALSE
  ELSE IF tileType = TILE_OBSTACLE /\ ~isStarActive(g)
       THEN FALSE
       ELSE TRUE

isInsideBoard(px, py) == px >= 0 /\ py >= 0 /\ px < GRID_COLS /\ py < GRID_ROWS

\* a tile lookup that takes a cell off the board for an empty one
getTileOpenOutside(g, px, py) ==
  IF ~g.loaded \/ ~isInsideBoard(px, py) THEN TILE_EMPTY ELSE g.tiles[py][px]

getTile(g, px, py) ==
  IF ~g.loaded \/ ~isInsideBoard(px, py) THEN TILE_WALL ELSE g.tiles[py][px]

canMoveTo(g, px, py) ==
  IF ~g.loaded \/ ~isInsideBoard(px, py)
  THEN FALSE
  ELSE canEnterTileType(g, g.tiles[py][px])

\* getMoveCandidate: <<>> for an unrecognized direction
getMoveCandidate(g, directionName) ==
  IF directionName \notin DirectionNames
  THEN <<>>
  ELSE <<Step(g.segments[1], directionName)>>

\* a deadlock test that also takes the cells under the snake for blocked
hasAnyValidMoveOffBody(g) ==
  \E i \in 1 .. 4 :
    LET next == getMoveCandidate(g, DirectionOrder[i])[1]
    IN /\ canMoveTo(g, next.x, next.y)
       /\ \A k \in DOMAIN g.segments : g.segments[k] # next

hasAnyValidMove(g) ==
  \E i \in 1 .. 4 :
    LET next == getMoveCandidate(g, DirectionOrder[i])[1]
    IN canMoveTo(g, next.x, next.y)

\* a history that is never trimmed
pushHistoryDeltaUntrimmed(g, delta) == [g EXCEPT !.history = Append(g.history, delta)]

\* a history that is trimmed without a count of what was dropped
pushHistoryDeltaUncounted(g, delta) ==
  LET pushed == Append(g.history, delta)
  IN IF Len(pushed) > HISTORY_LIMIT
     THEN [g EXCEPT !.history = Tail(pushed)]
     ELSE [g EXCEPT !.history = pushed]

\* pushHistoryDelta: append, and drop the oldest entry beyond the limit
\* (the checkpoint taken every 20th move is never read and is left out)
pushHistoryDelta(g, delta) ==
  LET pushed == Append(g.history, delta)
  IN IF Len(pushed) > HISTORY_LIMIT
     THEN [g EXCEPT !.discardedHistoryCount = @ + 1, !.history = Tail(pushed)]
     ELSE [g EXCEPT !.history = pushed]

\* a history whose newest delta is never amended after the push
WriteDeltaDropped(g, field, value) == g

\* tryMove holds a reference to the delta it pushed; a later write to the
\* delta is a write to the newest history entry, if it is still retained
WriteDelta(g, field, value) ==
  IF g.history = <<>>
  THEN g
  ELSE [g EXCEPT !.history[Len(g.history)] = [@ EXCEPT ![field] = value]]

\* setBlockedFeedback (this.feedback, which only the renderer reads, is left out)
setBlockedFeedback(g, candidate, reason) ==
  emit(g, "blocked", [reason |-> reason, tile |-> candidate])

startMoveAnimation(g) ==
  [g EXCEPT !.moveAnimation =
     <<[startAt |-> g.animationTimeMs,
        duration |-> IF g.settings.reduceMotion THEN 0 ELSE MOVE_ANIMATION_MS]>>]

\* a growth record that takes a BigItem for an Item
ItemGrowthOfOne(candidateTile) ==
  IF candidateTile = TILE_ITEM THEN 1
  ELSE IF candidateTile = TILE_BIG_ITEM THEN 1
  ELSE 0

\* the growth of the move: 0, 1 or 2
ItemGrowth(candidateTile) ==
  IF candidateTile = TILE_ITEM THEN 1
  ELSE IF candidateTile = TILE_BIG_ITEM THEN 2
  ELSE 0

\* a growth that treats a BigItem like an Item
GrowSnakeOnce(segs, candidateTile, tail) ==
  IF candidateTile \in {TILE_ITEM, TILE_BIG_ITEM}
  THEN growByTailPosition(segs, <<tail>>)
  ELSE segs

\* the segment list after the grow calls of handleItemCollection
GrowSnake(segs, candidateTile, tail) ==
  IF candidateTile = TILE_ITEM
  THEN growByTailPosition(segs, <<tail>>)
  ELSE IF candidateTile = TILE_BIG_ITEM
       THEN growByTailPosition(growByTailPosition(segs, <<tail>>), <<tail>>)
       ELSE segs

\* the star counter after handleItemCollection
StarAfterCollection(starMoves, candidateTile) ==
  IF candidateTile = TILE_STAR_ITEM THEN STAR_POWER_MOVES ELSE starMoves

\* an item collection that counts a StarItem among the collected items
handleItemCollectionCountingStar(g, candidate, candidateTile, tail) ==
  LET consumed == <<[x |-> candidate.x, y |-> candidate.y, tile |-> candidateTile]>>
      growth == ItemGrowth(candidateTile)
      payload(h, kind) ==
        [kind |-> kind, growth |-> growth, x |-> candidate.x, y |-> candidate.y,
         length |-> Len(h.segments), collected |-> h.levelCollectedItems,
         total |-> h.levelTotalItems]
  IN IF candidateTile \in {TILE_ITEM, TILE_BIG_ITEM}
     THEN LET g1 == [g EXCEPT !.tiles[candidate.y][candidate.x] = TILE_EMPTY,
                              !.segments = GrowSnake(@, candidateTile, tail),
                              !.levelCollectedItems = @ + 1,
                              !.totalItemsCollected = @ + 1]
              g2 == WriteDelta(WriteDelta(g1, "consumedItem", consumed), "growth", growth)
          IN emit(g2, "item_collected",
                  payload(g2, IF candidateTile = TILE_ITEM THEN "jelly" ELSE "super_jelly"))
     ELSE IF candidateTile = TILE_STAR_ITEM
          THEN LET g1 == [g EXCEPT !.tiles[candidate.y][candidate.x] = TILE_EMPTY,
                                   !.levelCollectedItems = @ + 1,
                                   !.starMovesRemaining =
                                      StarAfterCollection(@, candidateTile)]
                   g2 == WriteDelta(g1, "consumedItem", consumed)
                   g3 == emit(g2, "power_start",
                              [kind |-> "star", turns |-> g2.starMovesRemaining])
               IN emit(g3, "item_collected", payload(g3, "star"))
          ELSE g

\* handleItemCollection: the game after it; activatedStar is IsStarActivation
handleItemCollection(g, candidate, candidateTile, tail) ==
  LET consumed == <<[x |-> candidate.x, y |-> candidate.y, tile |-> candidateTile]>>
      growth == ItemGrowth(candidateTile)
      payload(h, kind) ==
        [kind |-> kind, growth |-> growth, x |-> candidate.x, y |-> candidate.y,
         length |-> Len(h.segments), collected |-> h.levelCollectedItems,
         total |-> h.levelTotalItems]
  IN IF candidateTile \in {TILE_ITEM, TILE_BIG_ITEM}
     THEN LET g1 == [g EXCEPT !.tiles[candidate.y][candidate.x] = TILE_EMPTY,
                              !.segments = GrowSnake(@, candidateTile, tail),
                              !.levelCollectedItems = @ + 1,
                              !.totalItemsCollected = @ + 1]
              g2 == WriteDelta(WriteDelta(g1, "consumedItem", consumed), "growth", growth)
          IN emit(g2, "item_collected",
                  payload(g2, IF candidateTile = TILE_ITEM THEN "jelly" ELSE "super_jelly"))
     ELSE IF candidateTile = TILE_STAR_ITEM
          THEN LET g1 == [g EXCEPT !.tiles[candidate.y][candidate.x] = TILE_EMPTY,
                                   !.starMovesRemaining =
                                      StarAfterCollection(@, candidateTile)]
                   g2 == WriteDelta(g1, "consumedItem", consumed)
                   g3 == emit(g2, "power_start",
                              [kind |-> "star", turns |-> g2.starMovesRemaining])
               IN emit(g3, "item_collected", payload(g3, "star"))
          ELSE g

IsStarActivation(candidateTile) == candidateTile = TILE_STAR_ITEM

\* a portal that never warps
handlePortalWarpSkipped(g, candidate, candidateTile) == g

\* handlePortalWarp: only the head is rewritten
handlePortalWarp(g, candidate, candidateTile) ==
  IF candidateTile # TILE_PORTAL_A /\ candidateTile # TILE_PORTAL_B
  THEN g
  ELSE LET portalDestination == getPortalDestination(g, candidate.x, candidate.y)
       IN IF portalDestination = <<>>
          THEN g
          ELSE LET to == portalDestination[1]
                   jump == [from |-> candidate, to |-> to]
               IN IF ~canEnterTileType(g, getTile(g, to.x, to.y))
                  THEN g
                  ELSE emit(WriteDelta([g EXCEPT !.segments[1] = to],
                                       "portalJump", <<jump>>),
                            "portal_used", jump)

\* a tick that also counts the activation move
tickStarPowerAlways(g, justActivated) ==
  IF g.starMovesRemaining > 0
  THEN IF g.starMovesRemaining - 1 <= 0
       THEN emit([g EXCEPT !.starMovesRemaining = 0], "power_end", [kind |-> "star"])
       ELSE [g EXCEPT !.starMovesRemaining = @ - 1]
  ELSE g

tickStarPower(g, justActivated) ==
  IF g.starMovesRemaining > 0 /\ ~justActivated
  THEN IF g.starMovesRemaining - 1 <= 0
       THEN emit([g EXCEPT !.starMovesRemaining = 0], "power_end", [kind |-> "star"])
       ELSE [g EXCEPT !.starMovesRemaining = @ - 1]
  ELSE g

\* a level clear that records the move count as the best whatever the best was
handleLevelClearAlwaysBest(g, storageOk) ==
  LET levelId == LEVELS[g.levelIndex].id
      previousBest == g.bestMoves[levelId]
      g1 == [g EXCEPT !.bestMoves[levelId] = g.moveCount]
      g2 == [g1 EXCEPT !.progressClears = @ + 1]
      lastLevelIndex == NumLevels - 1
  IN IF g2.levelIndex >= lastLevelIndex
     THEN emit(setState(saveProgressData([g2 EXCEPT !.unlockedLevelIndex = lastLevelIndex],
                                         storageOk),
                        "game_complete").g,
               "game_complete",
               [moveCount |-> g2.moveCount, totalMoves |-> g2.totalMoveCount])
     ELSE emit(setState(saveProgressData(
                          [g2 EXCEPT !.unlockedLevelIndex = Max2(@, g2.levelIndex + 1)],
                          storageOk),
                        "level_complete").g,
               "level_clear",
               [levelId |-> levelId, moveCount |-> g2.moveCount,
                bestMoves |-> g2.bestMoves[levelId],
                collectedItems |-> g2.levelCollectedItems,
                totalItems |-> g2.levelTotalItems, previousBest |-> previousBest])

\* handleLevelClear (the replay archive is left out)
handleLevelClear(g, storageOk) ==
  LET levelId == LEVELS[g.levelIndex].id
      previousBest == g.bestMoves[levelId]
      g1 == IF previousBest = 0 \/ g.moveCount < previousBest
            THEN [g EXCEPT !.bestMoves[levelId] = g.moveCount]
            ELSE g
      g2 == [g1 EXCEPT !.progressClears = @ + 1]
      lastLevelIndex == NumLevels - 1
  IN IF g2.levelIndex >= lastLevelIndex
     THEN emit(setState(saveProgressData([g2 EXCEPT !.unlockedLevelIndex = lastLevelIndex],
                                         storageOk),
                        "game_complete").g,
               "game_complete",
               [moveCount |-> g2.moveCount, totalMoves |-> g2.totalMoveCount])
     ELSE emit(setState(saveProgressData(
                          [g2 EXCEPT !.unlockedLevelIndex = Max2(@, g2.levelIndex + 1)],
                          storageOk),
                        "level_complete").g,
               "level_clear",
               [levelId |-> levelId, moveCount |-> g2.moveCount,
                bestMoves |-> g2.bestMoves[levelId],
                collectedItems |-> g2.levelCollectedItems,
                totalItems |-> g2.levelTotalItems, previousBest |-> previousBest])

\* a check after the move that does not look for the Exit
checkPostMoveStateDeadlockOnly(g, storageOk) ==
  IF ~hasAnyValidMove(g)
  THEN emit([g EXCEPT !.deadlockHintUntil = g.animationTimeMs + DEADLOCK_HINT_MS],
            "deadlock", <<>>)
  ELSE g

checkPostMoveState(g, storageOk) ==
  LET headAfterMove == g.segments[1]
  IN IF getTile(g, headAfterMove.x, headAfterMove.y) = TILE_EXIT
     THEN handleLevelClear(g, storageOk)
     ELSE IF ~hasAnyValidMove(g)
          THEN emit([g EXCEPT !.deadlockHintUntil = g.animationTimeMs + DEADLOCK_HINT_MS],
                    "deadlock", <<>>)
          ELSE g

\* a gate that stays closed until the whole animation has run
GateClosedUntilDone(g) ==
  /\ g.moveAnimation # <<>>
  /\ g.moveAnimation[1].duration > 0
  /\ g.animationTimeMs - g.moveAnimation[1].startAt < g.moveAnimation[1].duration

\* the pacing gate of tryMove: elapsed < duration * 0.7
GateClosed(g) ==
  /\ g.moveAnimation # <<>>
  /\ g.moveAnimation[1].duration > 0
  /\ 10 * (g.animationTimeMs - g.moveAnimation[1].startAt) < 7 * g.moveAnimation[1].duration

\* an accepted move that announces itself before its effects are resolved
AcceptMoveAnnouncedFirst(g, directionName, storageOk) ==
  LET candidate == getMoveCandidate(g, directionName)[1]
      candidateTile == getTile(g, candidate.x, candidate.y)
      tail == g.segments[Len(g.segments)]
      delta == [moveCountBefore |-> g.moveCount,
                previousDirection |-> g.direction,
                tail |-> tail,
                direction |-> directionName,
                growth |-> 0,
                consumedItem |-> <<>>,
                totalItemsBefore |-> g.totalItemsCollected,
                levelItemsBefore |-> g.levelCollectedItems,
                starMovesBefore |-> g.starMovesRemaining,
                portalJump |-> <<>>]
      g1 == pushHistoryDelta(g, delta)
      g2 == [g1 EXCEPT !.segments = SnakeMove(@, directionName),
                       !.direction = directionName]
      g3 == emit(g2, "move", [direction |-> directionName, moveCount |-> g2.moveCount + 1,
                              starMoves |-> g2.starMovesRemaining])
      g4 == handleItemCollection(g3, candidate, candidateTile, tail)
      g5 == handlePortalWarp(g4, candidate, candidateTile)
      g6 == tickStarPower(g5, IsStarActivation(candidateTile))
      g7 == [g6 EXCEPT !.moveCount = @ + 1, !.totalMoveCount = @ + 1]
      g8 == startMoveAnimation(g7)
      g9 == checkPostMoveState(g8, storageOk)
  IN saveProgressData(g9, storageOk)

\* the part of tryMove after the move was found legal
AcceptMove(g, directionName, storageOk) ==
  LET candidate == getMoveCandidate(g, directionName)[1]
      candidateTile == getTile(g, candidate.x, candidate.y)
      tail == g.segments[Len(g.segments)]
      delta == [moveCountBefore |-> g.moveCount,
                previousDirection |-> g.direction,
                tail |-> tail,
                direction |-> directionName,
                growth |-> 0,
                consumedItem |-> <<>>,
                totalItemsBefore |-> g.totalItemsCollected,
                levelItemsBefore |-> g.levelCollectedItems,
                starMovesBefore |-> g.starMovesRemaining,
                portalJump |-> <<>>]
      g1 == pushHistoryDelta(g, delta)
      g2 == [g1 EXCEPT !.segments = SnakeMove(@, directionName),
                       !.direction = directionName]
      g3 == handleItemCollection(g2, candidate, candidateTile, tail)
      g4 == handlePortalWarp(g3, candidate, candidateTile)
      g5 == tickStarPower(g4, IsStarActivation(candidateTile))
      g6 == [g5 EXCEPT !.moveCount = @ + 1, !.totalMoveCount = @ + 1]
      g7 == startMoveAnimation(g6)
      g8 == emit(g7, "move", [direction |-> directionName, moveCount |-> g7.moveCount,
                              starMoves |-> g7.starMovesRemaining])
      g9 == checkPostMoveState(g8, storageOk)
  IN saveProgressData(g9, storageOk)

\* tryMove: the game after the call and the value returned
tryMove(g, directionName, storageOk) ==
  IF g.state # "playing" THEN [g |-> g, ret |-> FALSE]
  ELSE IF ~g.loaded THEN [g |-> g, ret |-> FALSE]
  ELSE IF GateClosed(g) THEN [g |-> g, ret |-> FALSE]
  ELSE IF getMoveCandidate(g, directionName) = <<>> THEN [g |-> g, ret |-> FALSE]
  ELSE LET candidate == getMoveCandidate(g, directionName)[1]
           candidateTile == getTile(g, candidate.x, candidate.y)
       IN IF ~canEnterTileType(g, candidateTile)
          THEN [g |-> setBlockedFeedback(g, candidate,
                        IF candidateTile = TILE_OBSTACLE THEN "obstacle" ELSE "wall"),
                ret |-> FALSE]
          ELSE [g |-> AcceptMove(g, directionName, storageOk), ret |-> TRUE]

\* a restore that forgets to trim the segments the move grew
RestoreSegmentsNoTrim(current, delta) ==
  SubSeq(current, 2, Len(current)) \o <<delta.tail>>

\* the segment list undo reconstructs from the current one and the delta
RestoreSegments(current, delta) ==
  LET growth == Max2(0, delta.growth)
      restoreEnd == Max2(1, Len(current) - growth)
      effectiveSegments ==
        IF delta.portalJump # <<>>
        THEN [current EXCEPT ![1] = delta.portalJump[1].from]
        ELSE current
  IN SubSeq(effectiveSegments, 2, restoreEnd) \o <<delta.tail>>

\* a tile restore that puts an Item back whatever was consumed
RestoreTilesAsItem(t, delta) ==
  IF delta.consumedItem # <<>>
  THEN [t EXCEPT ![delta.consumedItem[1].y][delta.consumedItem[1].x] = TILE_ITEM]
  ELSE t

\* the tile grid undo restores
RestoreTiles(t, delta) ==
  IF delta.consumedItem # <<>>
  THEN [t EXCEPT ![delta.consumedItem[1].y][delta.consumedItem[1].x] =
                    delta.consumedItem[1].tile]
  ELSE t

undo(g) ==
  IF g.state # "playing" THEN [g |-> g, ret |-> FALSE]
  ELSE IF g.history = <<>> THEN [g |-> g, ret |-> FALSE]
  ELSE LET delta == g.history[Len(g.history)]
           g1 == [g EXCEPT !.history = SubSeq(@, 1, Len(@) - 1)]
           g2 == IF delta.consumedItem # <<>>
                 THEN [g1 EXCEPT !.tiles = RestoreTiles(@, delta),
                                 !.levelCollectedItems = delta.levelItemsBefore,
                                 !.totalItemsCollected = delta.totalItemsBefore]
                 ELSE g1
           g3 == [g2 EXCEPT !.starMovesRemaining = Max2(0, delta.starMovesBefore),
                            !.segments = RestoreSegments(g.segments, delta),
                            !.direction = delta.previousDirection,
                            !.moveCount = delta.moveCountBefore]
       IN [g |-> emit(startMoveAnimation(g3), "undo", [moveCount |-> g3.moveCount]),
           ret |-> TRUE]

\* a start from the beginning that clears the progress whatever the setting
startGameResetting(g, fromBeginning, storageOk) ==
  LET g1 == IF fromBeginning
            THEN clearProgress(g, storageOk)
            ELSE g
      g2 == [g1 EXCEPT !.levelIndex = IF fromBeginning THEN 0 ELSE g1.unlockedLevelIndex]
      g3 == setState(loadLevel(g2, g2.levelIndex), "playing").g
  IN [g |-> emit(g3, "state", [state |-> g3.state]), ret |-> TRUE]

startGame(g, fromBeginning, storageOk) ==
  LET g1 == IF fromBeginning /\ g.settings.resetProgressOnNewGame
            THEN clearProgress(g, storageOk)
            ELSE g
      g2 == [g1 EXCEPT !.levelIndex = IF fromBeginning THEN 0 ELSE g1.unlockedLevelIndex]
      g3 == setState(loadLevel(g2, g2.levelIndex), "playing").g
  IN [g |-> emit(g3, "state", [state |-> g3.state]), ret |-> TRUE]

openLevelSelect(g) ==
  IF g.state \in {"title", "paused", "level_complete", "game_complete"}
  THEN [g |-> setState(g, "level_select").g, ret |-> TRUE]
  ELSE [g |-> g, ret |-> FALSE]

closeLevelSelect(g) ==
  IF g.state # "level_select"
  THEN [g |-> g, ret |-> FALSE]
  ELSE [g |-> setState(g, "title").g, ret |-> TRUE]

\* a level select that does not look at the lock
selectLevelUnlocked(g, index, ignoreLock, unlockThrough, storageOk) ==
  LET normalized == clamp(index, 0, NumLevels - 1)
      g2 == setState(loadLevel(g, normalized), "playing").g
      g3 == emit(g2, "state", [state |-> g2.state])
  IN [g |-> saveProgressData(g3, storageOk), ret |-> TRUE]

\* selectLevel(index, {ignoreLock, unlockThrough})
selectLevel(g, index, ignoreLock, unlockThrough, storageOk) ==
  LET normalized == clamp(index, 0, NumLevels - 1)
  IN IF ~ignoreLock /\ normalized > g.unlockedLevelIndex
     THEN [g |-> g, ret |-> FALSE]
     ELSE LET g1 == IF ignoreLock /\ normalized > g.unlockedLevelIndex /\ unlockThrough
                    THEN [g EXCEPT !.unlockedLevelIndex = normalized]
                    ELSE g
              g2 == setState(loadLevel(g1, normalized), "playing").g
              g3 == emit(g2, "state", [state |-> g2.state])
          IN [g |-> saveProgressData(g3, storageOk), ret |-> TRUE]

\* restartLevel (the replay archive is left out)
restartLevel(g) ==
  IF ~g.loaded
  THEN [g |-> g, ret |-> FALSE]
  ELSE LET g1 == loadLevel(g, g.levelIndex)
           g2 == IF g1.state # "title" THEN setState(g1, "playing").g ELSE g1
       IN [g |-> emit(g2, "restart", [levelId |-> LEVELS[g2.levelIndex].id]), ret |-> TRUE]

\* an advance that does not notice it is already at the last level
nextLevelUnclamped(g, force, storageOk) ==
  IF ~force /\ g.state # "level_complete"
  THEN [g |-> g, ret |-> FALSE]
  ELSE selectLevel(g, clamp(g.levelIndex + 1, 0, NumLevels - 1), TRUE, TRUE, storageOk)

nextLevel(g, force, storageOk) ==
  IF ~force /\ g.state # "level_complete"
  THEN [g |-> g, ret |-> FALSE]
  ELSE LET target == clamp(g.levelIndex + 1, 0, NumLevels - 1)
       IN IF target = g.levelIndex
          THEN [g |-> g, ret |-> FALSE]
          ELSE selectLevel(g, target, TRUE, TRUE, storageOk)

prevLevel(g, force, storageOk) ==
  IF ~force /\ g.state # "level_complete"
  THEN [g |-> g, ret |-> FALSE]
  ELSE LET target == clamp(g.levelIndex - 1, 0, NumLevels - 1)
       IN IF target = g.levelIndex
          THEN [g |-> g, ret |-> FALSE]
          ELSE selectLevel(g, target, TRUE, FALSE, storageOk)

\* exitToTitle (the replay archive is left out)
exitToTitle(g) ==
  IF g.state = "playing"
  THEN [g |-> g, ret |-> FALSE]
  ELSE LET g1 == setState(loadLevel(g, g.unlockedLevelIndex), "title").g
       IN [g |-> emit(g1, "state", [state |-> g1.state]), ret |-> TRUE]

togglePause(g) ==
  IF g.state = "playing"
  THEN [g |-> emit(setState(g, "paused").g, "pause", [paused |-> TRUE]), ret |-> TRUE]
  ELSE IF g.state = "paused"
       THEN [g |-> emit(setState(g, "playing").g, "pause", [paused |-> FALSE]), ret |-> TRUE]
       ELSE [g |-> g, ret |-> FALSE]

ACTION_TO_DIRECTION ==
  [move_up |-> "up", move_down |-> "down", move_left |-> "left", move_right |-> "right"]

\* handleAction(action)
handleAction(g, action, storageOk) ==
  IF action \in DOMAIN ACTION_TO_DIRECTION
  THEN tryMove(g, ACTION_TO_DIRECTION[action], storageOk)
  ELSE IF action = "undo" THEN undo(g)
  ELSE IF action = "restart" THEN restartLevel(g)
  ELSE IF action = "pause" THEN togglePause(g)
  ELSE IF action = "next" THEN nextLevel(g, TRUE, storageOk)
  ELSE IF action = "level_select" THEN openLevelSelect(g)
  ELSE IF action = "start"
  THEN IF g.state = "title"
       THEN [g |-> startGame(g, FALSE, storageOk).g, ret |-> TRUE]
       ELSE IF g.state = "level_select"
       THEN [g |-> closeLevelSelect(g).g, ret |-> TRUE]
       ELSE IF g.state = "level_complete"
       THEN nextLevel(g, FALSE, storageOk)
       ELSE IF g.state = "game_complete"
       THEN [g |-> startGame(g, TRUE, storageOk).g, ret |-> TRUE]
       ELSE IF g.state = "paused"
       THEN togglePause(g)
       ELSE [g |-> g, ret |-> FALSE]
  ELSE [g |-> g, ret |-> FALSE]

\* update(_dtMs, nowTimeMs)
update(g, nowTimeMs) ==
  LET g1 == [g EXCEPT !.animationTimeMs = nowTimeMs]
  IN IF /\ g1.moveAnimation # <<>>
        /\ g1.moveAnimation[1].duration > 0
        /\ g1.animationTimeMs - g1.moveAnimation[1].startAt > g1.moveAnimation[1].duration
     THEN [g1 EXCEPT !.moveAnimation = <<>>]
     ELSE g1

\* a drain that hands out the queue and leaves it as it is
drainEventsKeeping(g) == [g |-> g, ret |-> g.eventQueue]

\* saveSettingsData: a failing storage write is caught and reported
saveSettingsData(g, storageOk) ==
  IF storageOk THEN g ELSE emit(g, "storage_error", [operation |-> "save_settings"])

\* setBindingToken(action, rawToken)
setBindingToken(g, action, rawToken, storageOk) ==
  IF action \notin DOMAIN g.settings.customBindings
  THEN [g |-> g, ret |-> FALSE]
  ELSE Only({[g |-> saveSettingsData(
                      [g EXCEPT !.settings.customBindings = bindings,
                                !.keyMap = buildKeyMap(bindings)],
                      storageOk),
              ret |-> TRUE] :
               bindings \in {[g.settings.customBindings EXCEPT
                                ![action] = normalizeKeyToken(rawToken)]}})

\* getActionFromKey: <<>> is null
getActionFromKey(g, rawKey) ==
  IF normalizeKeyToken(rawKey) \in DOMAIN g.keyMap
  THEN <<g.keyMap[normalizeKeyToken(rawKey)]>>
  ELSE <<>>

\* getLevelSelectItems: index, id, locked, bestMoves and current of each item
getLevelSelectItems(g) ==
  [k \in 1 .. NumLevels |->
     [index |-> k - 1, id |-> LEVELS[k - 1].id,
      locked |-> k - 1 > g.unlockedLevelIndex,
      bestMoves |-> g.bestMoves[LEVELS[k - 1].id],
      current |-> k - 1 = g.levelIndex]]

\* drainEvents: the game after the call and the list returned
drainEvents(g) == [g |-> [g EXCEPT !.eventQueue = <<>>], ret |-> g.eventQueue]

(***************************************************************************)
(* The state machine: one action per public method.  `last` tells whether  *)
(* the latest command that changed a Game field was a tryMove, and if so   *)
(* the value it returned; a command that is rejected without any change    *)
(* is a stuttering step.                                                   *)
(***************************************************************************)
Direction_Inputs == DirectionNames \cup {"none"}

Index_Inputs == 0 .. NumLevels

\* the caller's frame loop reads the queue before it issues the next command
\* that emits
QueueHasRoom == eventQueue = <<>>

\* no call of solveLevel or of enhanceMap is in progress
Idle == [phase |-> "idle"]

Call(op, r) ==
  /\ Becomes(r.g)
  /\ UNCHANGED <<verifier, generator, parser, storage, snakeCall, replay>>
  /\ last' = IF r.g = This THEN last
             ELSE IF op = "tryMove" THEN [op |-> op, ret |-> r.ret]
             ELSE [op |-> "other", ret |-> TRUE]

Init ==
  /\ \E reduceMotion \in BOOLEAN : Is(Game(reduceMotion))
  /\ last = [op |-> "other", ret |-> TRUE]
  /\ verifier = Idle
  /\ generator = Idle
  /\ parser = Idle
  /\ storage = EmptyStorage
  /\ snakeCall = Idle
  /\ replay = Idle

LoadLevel(index) ==
  /\ Call("loadLevel", [g |-> loadLevel(This, index), ret |-> TRUE])

StartGame(fromBeginning, storageOk) ==
  /\ QueueHasRoom
  /\ Call("startGame", startGame(This, fromBeginning, storageOk))

OpenLevelSelect ==
  /\ Call("openLevelSelect", openLevelSelect(This))

CloseLevelSelect ==
  /\ Call("closeLevelSelect", closeLevelSelect(This))

SelectLevel(index, ignoreLock, unlockThrough, storageOk) ==
  /\ QueueHasRoom
  /\ Call("selectLevel", selectLevel(This, index, ignoreLock, unlockThrough, storageOk))

RestartLevel ==
  /\ QueueHasRoom
  /\ Call("restartLevel", restartLevel(This))

NextLevel(force, storageOk) ==
  /\ QueueHasRoom
  /\ Call("nextLevel", nextLevel(This, force, storageOk))

PrevLevel(force, storageOk) ==
  /\ QueueHasRoom
  /\ Call("prevLevel", prevLevel(This, force, storageOk))

ExitToTitle ==
  /\ QueueHasRoom
  /\ Call("exitToTitle", exitToTitle(This))

TogglePause ==
  /\ QueueHasRoom
  /\ Call("togglePause", togglePause(This))

TryMove(directionName, storageOk) ==
  /\ QueueHasRoom
  /\ tryMove(This, directionName, storageOk).ret => totalMoveCount < MaxTotalMoves
  /\ Call("tryMove", tryMove(This, directionName, storageOk))

Undo ==
  /\ QueueHasRoom
  /\ Call("undo", undo(This))

\* the clock is advanced while a move animation of positive duration is in flight
Update ==
  /\ animationTimeMs + FrameMs <= MaxFrames * FrameMs
  /\ moveAnimation # <<>> /\ moveAnimation[1].duration > 0
  /\ Call("update", [g |-> update(This, animationTimeMs + FrameMs), ret |-> TRUE])

DrainEvents ==
  /\ Call("drainEvents", drainEvents(This))

Next ==
  \/ \E index \in Index_Inputs : LoadLevel(index)
  \/ \E fromBeginning \in BOOLEAN, storageOk \in BOOLEAN : StartGame(fromBeginning, storageOk)
  \/ OpenLevelSelect
  \/ CloseLevelSelect
  \/ \E index \in Index_Inputs, ignoreLock \in BOOLEAN, unlockThrough \in BOOLEAN,
        storageOk \in BOOLEAN : SelectLevel(index, ignoreLock, unlockThrough, storageOk)
  \/ RestartLevel
  \/ \E force \in BOOLEAN, storageOk \in BOOLEAN : NextLevel(force, storageOk)
  \/ \E force \in BOOLEAN, storageOk \in BOOLEAN : PrevLevel(force, storageOk)
  \/ ExitToTitle
  \/ TogglePause
  \/ \E directionName \in Direction_Inputs, storageOk \in BOOLEAN :
        TryMove(directionName, storageOk)
  \/ Undo
  \/ Update
  \/ DrainEvents

Spec == Init /\ [][Next]_vars

(***************************************************************************)
(* scripts/validate-levels.js: the successor computation of solveLevel.    *)
(* A node is [segments, starMoves]; the tiles are those of the level as    *)
(* parsed, which the search never rewrites.                                *)
(***************************************************************************)
\* portalA / portalB of solveLevel: the scan is row-major and only element 0 of
\* either list is ever read, so the list is kept as <<>> or <<its first cell>>
PortalCells(level, kind) == FirstCell(level.tiles, kind)

\* one iteration of the direction loop of solveLevel: <<>> when the loop
\* continues without a successor, else <<the node it builds>>
solveLevelSuccessor(level, node, directionName) ==
  LET d == DIRECTIONS[directionName]
      headPos == node.segments[1]
      nx == headPos.x + d.x
      ny == headPos.y + d.y
      defined == ny \in Rows /\ nx \in Cols
      tile == IF defined THEN level.tiles[ny][nx] ELSE TILE_WALL
      starActive == node.starMoves > 0
      portalA == PortalCells(level, TILE_PORTAL_A)
      portalB == PortalCells(level, TILE_PORTAL_B)
      shifted == <<Pt(nx, ny)>> \o SubSeq(node.segments, 1, Len(node.segments) - 1)
      nextStarMoves ==
        IF tile = TILE_STAR_ITEM THEN STAR_POWER_MOVES
        ELSE IF node.starMoves > 0 THEN node.starMoves - 1
        ELSE node.starMoves
      nextSegments ==
        IF tile = TILE_PORTAL_A /\ portalB # <<>>
        THEN [shifted EXCEPT ![1] = portalB[1]]
        ELSE IF tile = TILE_PORTAL_B /\ portalA # <<>>
             THEN [shifted EXCEPT ![1] = portalA[1]]
             ELSE shifted
  IN IF ~defined \/ tile = TILE_WALL
     THEN <<>>
     ELSE IF tile = TILE_OBSTACLE /\ ~starActive
          THEN <<>>
          ELSE <<[segments |-> nextSegments, starMoves |-> nextStarMoves]>>

\* the levels the verifier is run on: the game's levels, a level whose exit
\* lies behind an obstacle with no star to pass it, and a level whose exit
\* is walled in
\*  ######        ######
\*  #S.XE#        #S.#E#
\*  #.####        #..###
\*  ######        ######
VerifierLevelDefs ==
  LevelDefs \o
  << [id |-> 3, snakeLength |-> 1,
      map |-> WalledIn(<< <<"#", "#", "#", "#", "#", "#">>,
                          <<"#", "S", ".", "X", "E", "#">>,
                          <<"#", ".", "#", "#", "#", "#">>,
                          <<"#", "#", "#", "#", "#", "#">> >>)],
     [id |-> 4, snakeLength |-> 2,
      map |-> WalledIn(<< <<"#", "#", "#", "#", "#", "#">>,
                          <<"#", "S", ".", "#", "E", "#">>,
                          <<"#", ".", ".", "#", "#", "#">>,
                          <<"#", "#", "#", "#", "#", "#">> >>)] >>

VerifierLevels ==
  [i \in 1 .. Len(VerifierLevelDefs) |-> parseMap(VerifierLevelDefs[i]).value[1]]

\* findExit: the first Exit tile in row-major order
findExit(level) == FirstCell(level.tiles, TILE_EXIT)

\* stateKey(segments, starMoves): what the seen set tells apart
stateKey(segs, starMoves) == [segments |-> segs, starMoves |-> starMoves]

\* the order in which solveLevel tries the directions
solveDirectionNames == <<"up", "down", "left", "right">>

\* a budget that is already used up when the visited states number maxStates
budgetExceededAtLimit(seenSize, maxStates) == seenSize >= maxStates

\* the budget test made on every dequeued node that is not on the exit
budgetExceeded(seenSize, maxStates) == seenSize > maxStates

\* solveLevel up to its loop: the queue holds the start node, which is seen
solveLevelStart(level, maxStates) ==
  LET start == buildInitialSegments(level.spawn, level.snakeLength, level.tiles)
  IN [phase |-> "running",
      level |-> level,
      maxStates |-> maxStates,
      queue |-> <<[segments |-> start, steps |-> 0, starMoves |-> 0]>>,
      seen |-> {stateKey(start, 0)},
      head |-> 0,
      node |-> <<>>,
      dir |-> 1,
      result |-> <<>>]

\* the i-th pass of the direction loop of solveLevel for the dequeued node:
\* an unseen successor is marked seen and queued
solveLevelDirection(v) ==
  LET node == v.node[1]
      next == solveLevelSuccessor(v.level, node, solveDirectionNames[v.dir])
      nextKey == stateKey(next[1].segments, next[1].starMoves)
      after == IF v.dir = Len(solveDirectionNames)
               THEN [v EXCEPT !.node = <<>>, !.dir = 1]
               ELSE [v EXCEPT !.dir = @ + 1]
  IN IF next = <<>> \/ nextKey \in v.seen
     THEN after
     ELSE [after EXCEPT !.seen = @ \cup {nextKey},
                        !.queue = Append(@, [segments |-> next[1].segments,
                                             steps |-> node.steps + 1,
                                             starMoves |-> next[1].starMoves])]

\* the head of a pass of the loop of solveLevel: a node is dequeued and
\* tested for the exit, then the budget is tested
solveLevelDequeue(v) ==
  LET node == v.queue[v.head + 1]
      headPos == node.segments[1]
      exit == findExit(v.level)[1]
      v1 == [v EXCEPT !.head = @ + 1]
  IN IF headPos = exit
     THEN [v1 EXCEPT !.phase = "done",
                     !.result = <<[solved |-> TRUE, timeout |-> FALSE,
                                   steps |-> <<node.steps>>,
                                   explored |-> Cardinality(v.seen)]>>]
     ELSE IF budgetExceeded(Cardinality(v.seen), v.maxStates)
          THEN [v1 EXCEPT !.phase = "done",
                          !.result = <<[solved |-> FALSE, timeout |-> TRUE,
                                        steps |-> <<>>,
                                        explored |-> Cardinality(v.seen)]>>]
          ELSE [v1 EXCEPT !.node = <<node>>, !.dir = 1]

\* the return that follows the loop of solveLevel
solveLevelExhausted(v) ==
  [v EXCEPT !.phase = "done",
            !.result = <<[solved |-> FALSE, timeout |-> FALSE, steps |-> <<>>,
                          explored |-> Cardinality(v.seen)]>>]

\* the budgets the verifier is run with
MaxStates_Inputs == 0 .. MaxBudget

VerifierInit ==
  /\ Is(Game(FALSE))
  /\ last = [op |-> "other", ret |-> TRUE]
  /\ generator = Idle
  /\ parser = Idle
  /\ storage = EmptyStorage
  /\ snakeCall = Idle
  /\ replay = Idle
  /\ \E levelId \in DOMAIN VerifierLevels, maxStates \in MaxStates_Inputs :
       verifier = solveLevelStart(VerifierLevels[levelId], maxStates)

\* a pass of the loop begins: a node is dequeued
SolveDequeue ==
  /\ verifier.phase = "running"
  /\ verifier.node = <<>>
  /\ verifier.head < Len(verifier.queue)
  /\ verifier' = solveLevelDequeue(verifier)
  /\ UNCHANGED <<gameVars, last, generator, parser, storage, snakeCall, replay>>

\* the next direction is tried from the dequeued node
SolveDirection ==
  /\ verifier.phase = "running"
  /\ verifier.node # <<>>
  /\ verifier' = solveLevelDirection(verifier)
  /\ UNCHANGED <<gameVars, last, generator, parser, storage, snakeCall, replay>>

\* the loop ends on an empty queue
SolveExhausted ==
  /\ verifier.phase = "running"
  /\ verifier.node = <<>>
  /\ verifier.head >= Len(verifier.queue)
  /\ verifier' = solveLevelExhausted(verifier)
  /\ UNCHANGED <<gameVars, last, generator, parser, storage, snakeCall, replay>>

VerifierNext == SolveDequeue \/ SolveDirection \/ SolveExhausted

\* the loop of solveLevel is not suspended: it is an ordinary loop
VerifierSpec == VerifierInit /\ [][VerifierNext]_vars /\ WF_vars(VerifierNext)

\* the budget solveLevel has when run() calls it
DEFAULT_MAX_STATES == 350000

\* one step of solveLevel from the point v: the next direction of the
\* dequeued node, the next dequeue, or the return after the loop
solveLevelStep(v) ==
  IF v.phase # "running"
  THEN v
  ELSE IF v.node # <<>>
       THEN solveLevelDirection(v)
       ELSE IF v.head < Len(v.queue)
            THEN solveLevelDequeue(v)
            ELSE solveLevelExhausted(v)

RECURSIVE solveLevelRun(_, _)

\* at most n steps of solveLevel, evaluated by halves
solveLevelRun(v, n) ==
  IF n <= 1
  THEN solveLevelStep(v)
  ELSE Only({IF half.phase # "running" THEN half ELSE solveLevelRun(half, n - (n \div 2)) :
               half \in {solveLevelRun(v, n \div 2)}})

\* solveLevel(level, C, Snake, maxStates), the call as a whole.  A pass of
\* the loop takes five steps and adds at most four states to seen, and the
\* loop is left once seen holds more than maxStates states.
solveLevel(level, maxStates) ==
  Only({solveLevelRun(start, 5 * (maxStates + 5) + 1) :
          start \in {solveLevelStart(level, maxStates)}})

\* validateMap: does it throw
validateMapThrows(level) ==
  \/ Cardinality(DOMAIN level.tiles) # GRID_ROWS
  \/ \E cy \in DOMAIN level.tiles : Cardinality(DOMAIN level.tiles[cy]) # GRID_COLS

(***************************************************************************)
(* The level pipeline: enhanceMap builds the map of a level from a         *)
(* template, parseMap makes the level of it, and run() of                  *)
(* validate-levels.js validates and solves it.                             *)
(***************************************************************************)
Worlds == 1 .. 10

Stages == 1 .. 10

\* the templates enhanceMap is called with for a stage: the shipped one and
\* the maps that are not shipped
Template_Inputs(stage) ==
  {BASE_STAGE_DEFS[stage].map} \cup {OtherTemplates[i] : i \in DOMAIN OtherTemplates}

\* the run of the generator is one of those that build RAW_LEVELS
Shipped(e) == e.baseRows = BASE_STAGE_DEFS[e.stage].map

GeneratorInit ==
  /\ Is(Game(FALSE))
  /\ last = [op |-> "other", ret |-> TRUE]
  /\ verifier = Idle
  /\ parser = Idle
  /\ storage = EmptyStorage
  /\ snakeCall = Idle
  /\ replay = Idle
  /\ \E world \in Worlds, stage \in Stages :
       \E baseRows \in Template_Inputs(stage) :
         generator = enhanceMapStart(baseRows, world, stage)

EnhanceMapCarve ==
  /\ generator.phase = "carve"
  /\ generator' = enhanceMapCarve(generator)
  /\ UNCHANGED <<gameVars, last, verifier, parser, storage, snakeCall, replay>>

EnhanceMapObstacles ==
  /\ generator.phase = "obstacles"
  /\ generator' = enhanceMapObstacles(generator)
  /\ UNCHANGED <<gameVars, last, verifier, parser, storage, snakeCall, replay>>

EnhanceMapPortals ==
  /\ generator.phase = "portals"
  /\ generator' = enhanceMapPortals(generator)
  /\ UNCHANGED <<gameVars, last, verifier, parser, storage, snakeCall, replay>>

EnhanceMapItems ==
  /\ generator.phase = "items"
  /\ generator' = enhanceMapItems(generator)
  /\ UNCHANGED <<gameVars, last, verifier, parser, storage, snakeCall, replay>>

EnhanceMapBigItems ==
  /\ generator.phase = "bigItems"
  /\ generator' = enhanceMapBigItems(generator)
  /\ UNCHANGED <<gameVars, last, verifier, parser, storage, snakeCall, replay>>

EnhanceMapStars ==
  /\ generator.phase = "stars"
  /\ generator' = enhanceMapStars(generator)
  /\ UNCHANGED <<gameVars, last, verifier, parser, storage, snakeCall, replay>>

\* one pass of the loop of run() of validate-levels.js, for the level that
\* LEVELS holds for the generated map: validateMap, then solveLevel
ValidateLevel ==
  /\ generator.phase = "done"
  /\ Shipped(generator)
  /\ verifier = Idle
  /\ \E parsed \in {parseMap(levelDefOf(generator.world, generator.stage,
                                         generator.result[1]))} :
       /\ parser' = [phase |-> "done", outcome |-> [error |-> parsed.error]]
       /\ verifier' = IF parsed.error # "" \/ validateMapThrows(parsed.value[1])
                      THEN [phase |-> "thrown"]
                      ELSE solveLevel(parsed.value[1], DEFAULT_MAX_STATES)
  /\ UNCHANGED <<gameVars, last, generator, storage, snakeCall, replay>>

GeneratorNext ==
  \/ EnhanceMapCarve
  \/ EnhanceMapObstacles
  \/ EnhanceMapPortals
  \/ EnhanceMapItems
  \/ EnhanceMapBigItems
  \/ EnhanceMapStars
  \/ ValidateLevel

GeneratorSpec == GeneratorInit /\ [][GeneratorNext]_vars

(***************************************************************************)
(* Properties                                                              *)
(***************************************************************************)
RECURSIVE UndoTimes(_, _)

\* n consecutive undo() calls: the game after them, and whether all returned true
UndoTimes(g, n) ==
  IF n = 0
  THEN [g |-> g, ok |-> TRUE]
  ELSE LET u == undo(g)
           rest == UndoTimes(u.g, n - 1)
       IN [g |-> rest.g, ok |-> u.ret /\ rest.ok]

\* the game is as loadLevel left it, as far as the undo contract goes
AsFreshlyLoaded(g) ==
  /\ g.segments = g.levelStartSegments
  /\ g.moveCount = 0
  /\ g.starMovesRemaining = 0
  /\ g.levelCollectedItems = 0

JustMoved == loaded /\ last.op = "tryMove" /\ last.ret

\* C1 as stated: after the accepted moves made since the level was loaded
\* (moveCount of them are outstanding), that many consecutive undo() calls all
\* succeed and restore the freshly loaded segments and counters.
C1_UndoAllAsStated ==
  JustMoved =>
    LET u == UndoTimes(This, moveCount)
    IN u.ok /\ AsFreshlyLoaded(u.g)

\* C1, amended: the same, for a sequence of moves that leaves the game in
\* Playing (no move reached the Exit) and discarded no history entry (at most
\* HISTORY_LIMIT moves are outstanding).
C1_UndoAll ==
  (JustMoved /\ state = "playing" /\ discardedHistoryCount = 0) =>
    LET u == UndoTimes(This, moveCount)
    IN u.ok /\ AsFreshlyLoaded(u.g)

\* two moves are outstanding: a portal warp and a pickup among them
C1_Witness ==
  /\ JustMoved /\ state = "playing" /\ discardedHistoryCount = 0
  /\ moveCount = 2
  /\ \E i \in 1 .. Len(history) : history[i].portalJump # <<>>
  /\ \E i \in 1 .. Len(history) : history[i].consumedItem # <<>>

\* what single-step undo has to give back
SameAsBefore(g) ==
  /\ g.segments = segments
  /\ g.direction = direction
  /\ g.moveCount = moveCount
  /\ g.starMovesRemaining = starMovesRemaining
  /\ g.levelCollectedItems = levelCollectedItems
  /\ g.totalItemsCollected = totalItemsCollected

\* C2 as stated: in a Playing state, an accepted tryMove(d) followed at once by
\* undo() gives back the segments, facing and counters of before the move.
C2_UndoOneAsStated ==
  (loaded /\ state = "playing") =>
    \A d \in DirectionNames, storageOk \in BOOLEAN :
      LET m == tryMove(This, d, storageOk)
      IN m.ret => SameAsBefore(undo(m.g).g)

\* C2, amended: the same, when the move did not end on an Exit tile (the game
\* is still Playing after it); then undo() also returns true.
C2_UndoOne ==
  (loaded /\ state = "playing") =>
    \A d \in DirectionNames, storageOk \in BOOLEAN :
      LET m == tryMove(This, d, storageOk)
      IN (m.ret /\ m.g.state = "playing") => undo(m.g).ret /\ SameAsBefore(undo(m.g).g)

\* a move that grows the snake by 2 is at hand
C2_Witness ==
  /\ loaded /\ state = "playing"
  /\ \E d \in DirectionNames :
       LET m == tryMove(This, d, TRUE)
       IN m.ret /\ m.g.state = "playing" /\ Len(m.g.segments) = Len(segments) + 2

\* the tile a move in direction d is aimed at; off the board counts as Wall
TargetCell(d) == Pt(segments[1].x + DIRECTIONS[d].x, segments[1].y + DIRECTIONS[d].y)

TargetTile(d) ==
  LET c == TargetCell(d)
  IN IF c.x \in Cols /\ c.y \in Rows THEN tiles[c.y][c.x] ELSE TILE_WALL

\* C3: in Playing with the gate open, a move toward a Wall (or off the board),
\* or toward an Obstacle with no star power, returns false, changes no rule
\* state and appends exactly one 'blocked' event with the matching reason.
C3_BlockedMove ==
  (loaded /\ state = "playing" /\ ~GateClosed(This)) =>
    \A d \in DirectionNames, storageOk \in BOOLEAN :
      (\/ TargetTile(d) = TILE_WALL
       \/ (TargetTile(d) = TILE_OBSTACLE /\ starMovesRemaining = 0)) =>
        LET m == tryMove(This, d, storageOk)
        IN /\ m.ret = FALSE
           /\ m.g.segments = segments
           /\ m.g.tiles = tiles
           /\ m.g.moveCount = moveCount
           /\ m.g.history = history
           /\ m.g.starMovesRemaining = starMovesRemaining
           /\ Len(m.g.eventQueue) = Len(eventQueue) + 1
           /\ SubSeq(m.g.eventQueue, 1, Len(eventQueue)) = eventQueue
           /\ m.g.eventQueue[Len(m.g.eventQueue)].type = "blocked"
           /\ m.g.eventQueue[Len(m.g.eventQueue)].payload.reason =
                (IF TargetTile(d) = TILE_OBSTACLE THEN "obstacle" ELSE "wall")

\* a move toward an Obstacle was refused
C3_Witness ==
  /\ last.op = "tryMove" /\ ~last.ret
  /\ \E i \in 1 .. Len(eventQueue) :
       eventQueue[i].type = "blocked" /\ eventQueue[i].payload.reason = "obstacle"

Rejected(r) == r.ret = FALSE /\ r.g = This

\* C4: every rejected command is a pure no-op: undo outside Playing or with an
\* empty history, tryMove outside Playing or with an unrecognized direction,
\* setState with an unlisted transition, nextLevel at the last level and
\* prevLevel at the first level return false and leave every variable as it was.
C4_RejectedNoOp ==
  /\ (state # "playing" \/ history = <<>>) => Rejected(undo(This))
  /\ \A d \in Direction_Inputs, storageOk \in BOOLEAN :
       (state # "playing" \/ d \notin DirectionNames) => Rejected(tryMove(This, d, storageOk))
  /\ \A next \in GAME_STATE :
       (next \notin STATE_TRANSITIONS[state] /\ next # state) => Rejected(setState(This, next))
  /\ \A force \in BOOLEAN, storageOk \in BOOLEAN :
       /\ levelIndex = NumLevels - 1 => Rejected(nextLevel(This, force, storageOk))
       /\ levelIndex = 0 => Rejected(prevLevel(This, force, storageOk))

\* a paused game at the last level with moves to undo: undo, tryMove and
\* nextLevel are all refused there
C4_Witness ==
  /\ state = "paused" /\ history # <<>> /\ levelIndex = NumLevels - 1
  /\ eventQueue # <<>>
  /\ Rejected(undo(This)) /\ Rejected(tryMove(This, "up", TRUE))
  /\ Rejected(nextLevel(This, TRUE, TRUE))

\* setState(next) succeeds iff next is listed for the current state or equals it
SetStateByTable ==
  \A next \in GAME_STATE :
    LET r == setState(This, next)
    IN IF next \in STATE_TRANSITIONS[state] \/ next = state
       THEN r.ret /\ r.g = [This EXCEPT !.state = next]
       ELSE Rejected(r)

\* togglePause switches Playing and Paused and does nothing elsewhere
TogglePauseSwitches ==
  LET r == togglePause(This)
  IN IF state = "playing" THEN r.ret /\ r.g.state = "paused"
     ELSE IF state = "paused" THEN r.ret /\ r.g.state = "playing"
     ELSE Rejected(r)

\* C5: the state only moves along the transition table: setState succeeds iff
\* the target is listed or is the current state, every change of state made by
\* a command is a listed transition, and togglePause switches Playing and
\* Paused and does nothing in any other state.
C5_TransitionTable ==
  /\ [](SetStateByTable /\ TogglePauseSwitches)
  /\ [][state' # state => state' \in STATE_TRANSITIONS[state]]_vars

\* a pause was just lifted
C5_Witness ==
  /\ state = "playing" /\ last.op = "other"
  /\ \E i \in 1 .. Len(eventQueue) :
       eventQueue[i].type = "pause" /\ eventQueue[i].payload.paused = FALSE

\* the events a call appended to the queue
NewEvents(g) == SubSeq(g.eventQueue, Len(eventQueue) + 1, Len(g.eventQueue))

CountEvents(events, type) == Cardinality({i \in 1 .. Len(events) : events[i].type = type})

\* C6: an accepted move onto an Item grows the snake by exactly 1, onto a
\* BigItem by exactly 2 (one pickup: both item counters rise by 1), onto a
\* StarItem by 0 while the star counter becomes STAR_POWER_MOVES; onto any
\* other tile the segment count is unchanged.
C6_Growth ==
  (loaded /\ state = "playing") =>
    \A d \in DirectionNames, storageOk \in BOOLEAN :
      LET m == tryMove(This, d, storageOk)
          tile == TargetTile(d)
      IN m.ret =>
           /\ tile = TILE_ITEM => Len(m.g.segments) = Len(segments) + 1
           /\ tile = TILE_BIG_ITEM => Len(m.g.segments) = Len(segments) + 2
           /\ tile \in {TILE_ITEM, TILE_BIG_ITEM} =>
                /\ m.g.levelCollectedItems = levelCollectedItems + 1
                /\ m.g.totalItemsCollected = totalItemsCollected + 1
           /\ tile = TILE_STAR_ITEM =>
                /\ Len(m.g.segments) = Len(segments)
                /\ m.g.starMovesRemaining = STAR_POWER_MOVES
           /\ tile \notin {TILE_ITEM, TILE_BIG_ITEM, TILE_STAR_ITEM} =>
                Len(m.g.segments) = Len(segments)

\* a BigItem was just collected
C6_Witness ==
  /\ last.op = "tryMove" /\ last.ret
  /\ \E i \in 1 .. Len(eventQueue) :
       /\ eventQueue[i].type = "item_collected"
       /\ eventQueue[i].payload.kind = "super_jelly"
       /\ eventQueue[i].payload.growth = 2

\* C7: after an accepted move onto an Item, BigItem or StarItem that cell reads
\* Empty and no other cell changed; undoing the move gives back the whole grid.
C7_ConsumedTileRoundTrip ==
  (loaded /\ state = "playing") =>
    \A d \in DirectionNames, storageOk \in BOOLEAN :
      LET m == tryMove(This, d, storageOk)
          c == TargetCell(d)
      IN (m.ret /\ TargetTile(d) \in {TILE_ITEM, TILE_BIG_ITEM, TILE_STAR_ITEM}) =>
           /\ m.g.tiles = [tiles EXCEPT ![c.y][c.x] = TILE_EMPTY]
           /\ undo(m.g).ret
           /\ undo(m.g).g.tiles = tiles

\* a StarItem is about to be consumed and given back
C7_Witness ==
  /\ loaded /\ state = "playing"
  /\ \E d \in DirectionNames :
       LET m == tryMove(This, d, TRUE)
           c == TargetCell(d)
       IN /\ m.ret /\ TargetTile(d) = TILE_STAR_ITEM
          /\ m.g.tiles[c.y][c.x] = TILE_EMPTY
          /\ undo(m.g).g.tiles[c.y][c.x] = TILE_STAR_ITEM

\* C8: the move that consumes a StarItem leaves the counter at
\* STAR_POWER_MOVES; every other accepted move lowers a positive counter by 1
\* and leaves 0 at 0; a refused move does not change it; 'power_end' is emitted
\* exactly once, in the move that takes the counter from 1 to 0.
C8_StarDecay ==
  (loaded /\ state = "playing") =>
    \A d \in Direction_Inputs, storageOk \in BOOLEAN :
      LET m == tryMove(This, d, storageOk)
          ends == CountEvents(NewEvents(m.g), "power_end")
      IN /\ starMovesRemaining >= 0
         /\ ~m.ret => m.g.starMovesRemaining = starMovesRemaining /\ ends = 0
         /\ m.ret =>
              IF TargetTile(d) = TILE_STAR_ITEM
              THEN m.g.starMovesRemaining = STAR_POWER_MOVES /\ ends = 0
              ELSE IF starMovesRemaining > 0
                   THEN /\ m.g.starMovesRemaining = starMovesRemaining - 1
                        /\ ends = (IF starMovesRemaining = 1 THEN 1 ELSE 0)
                   ELSE m.g.starMovesRemaining = 0 /\ ends = 0

\* star power just ran out
C8_Witness ==
  /\ last.op = "tryMove" /\ last.ret /\ starMovesRemaining = 0
  /\ CountEvents(eventQueue, "power_end") = 1

\* C9: an accepted move onto a PortalA or PortalB tile that has a link puts the
\* head on the partner portal (not on the entrance), every other segment where
\* an ordinary shift puts it, and emits exactly one 'portal_used' event.
C9_PortalWarp ==
  (loaded /\ state = "playing") =>
    \A d \in DirectionNames, storageOk \in BOOLEAN :
      LET m == tryMove(This, d, storageOk)
          c == TargetCell(d)
      IN (m.ret /\ TargetTile(d) \in {TILE_PORTAL_A, TILE_PORTAL_B}
               /\ c \in DOMAIN portalLinks) =>
           /\ m.g.segments[1] = portalLinks[c]
           /\ m.g.segments[1] # c
           /\ Len(m.g.segments) = Len(segments)
           /\ \A i \in 2 .. Len(segments) : m.g.segments[i] = segments[i - 1]
           /\ CountEvents(NewEvents(m.g), "portal_used") = 1

\* a snake of two segments just went through a portal
C9_Witness ==
  /\ last.op = "tryMove" /\ last.ret /\ Len(segments) >= 2
  /\ \E i \in 1 .. Len(eventQueue) :
       /\ eventQueue[i].type = "portal_used"
       /\ eventQueue[i].payload.to = segments[1]
       /\ eventQueue[i].payload.from # segments[1]

\* the verifier's node for the position the engine is in
VerifierNode == [segments |-> segments, starMoves |-> starMovesRemaining]

\* C10: the verifier's successor computation and the engine's tryMove agree on
\* every step: from the same head and star counter, on the same level, a
\* direction is accepted by both or by neither, and when accepted both arrive
\* at the same head coordinate and the same star counter.
C10_VerifierAgrees ==
  (loaded /\ state = "playing" /\ ~GateClosed(This)) =>
    \A d \in DirectionNames, storageOk \in BOOLEAN :
      LET m == tryMove(This, d, storageOk)
          v == solveLevelSuccessor(LEVELS[levelIndex], VerifierNode, d)
      IN /\ m.ret <=> v # <<>>
         /\ m.ret =>
              /\ v[1].segments[1] = m.g.segments[1]
              /\ v[1].starMoves = m.g.starMovesRemaining

\* C19: the history never holds more than HISTORY_LIMIT entries; an accepted
\* move made with a full history drops exactly the oldest entry, appends the
\* new one as the newest and raises discardedHistoryCount by exactly 1; an
\* accepted move made with fewer entries appends and discards nothing.
C19_HistoryBound ==
  /\ Len(history) <= HISTORY_LIMIT
  /\ (loaded /\ state = "playing") =>
       \A d \in DirectionNames, storageOk \in BOOLEAN :
         LET m == tryMove(This, d, storageOk)
             after == m.g.history
             newest == after[Len(after)]
         IN m.ret =>
              /\ after # <<>>
              /\ newest.moveCountBefore = moveCount
              /\ newest.direction = d
              /\ IF Len(history) = HISTORY_LIMIT
                 THEN /\ Len(after) = HISTORY_LIMIT
                      /\ SubSeq(after, 1, Len(after) - 1) = Tail(history)
                      /\ m.g.discardedHistoryCount = discardedHistoryCount + 1
                 ELSE /\ Len(after) = Len(history) + 1
                      /\ SubSeq(after, 1, Len(after) - 1) = history
                      /\ m.g.discardedHistoryCount = discardedHistoryCount

\* a move was just accepted with a full history: the oldest entry is gone
C19_Witness ==
  /\ last.op = "tryMove" /\ last.ret
  /\ Len(history) = HISTORY_LIMIT
  /\ discardedHistoryCount = 1
  /\ history[1].moveCountBefore = 1

\* the game holds level n exactly as its template describes it
FreshLevel(g, n) ==
  /\ g.loaded /\ g.levelIndex = n
  /\ g.tiles = LEVELS[n].tiles
  /\ g.levelStartTiles = LEVELS[n].tiles
  /\ g.segments = buildInitialSegments(LEVELS[n].spawn, LEVELS[n].snakeLength, LEVELS[n].tiles)
  /\ g.moveCount = 0
  /\ g.history = <<>>
  /\ g.discardedHistoryCount = 0
  /\ g.starMovesRemaining = 0
  /\ g.levelCollectedItems = 0

\* C20: after any sequence of moves and undos, loadLevel(i) and restartLevel
\* leave the playable grid equal to the level template's grid and the snake
\* equal to the initial placement, with moveCount, history,
\* discardedHistoryCount, starMovesRemaining and levelCollectedItems reset; the
\* copy of the template taken at load time is not written by play.
C20_ReloadResets ==
  /\ \A index \in Index_Inputs :
       FreshLevel(loadLevel(This, index), clamp(index, 0, NumLevels - 1))
  /\ loaded =>
       /\ levelStartTiles = LEVELS[levelIndex].tiles
       /\ restartLevel(This).ret
       /\ FreshLevel(restartLevel(This).g, levelIndex)

\* the level was restarted after play had consumed an item: the item is back
C20_Witness ==
  /\ loaded /\ moveCount = 0 /\ totalMoveCount > 0 /\ totalItemsCollected > 0
  /\ tiles = LEVELS[levelIndex].tiles
  /\ countItemsInCurrentLevel(tiles) > 0
  /\ \E i \in 1 .. Len(eventQueue) : eventQueue[i].type = "restart"

RECURSIVE MinStepsFrom(_, _, _, _)

\* the least number of verifier moves that takes some node of the frontier
\* (nodes at distance k from the start) to the exit; <<>> when none does
MinStepsFrom(level, frontier, visited, k) ==
  IF frontier = {}
  THEN <<>>
  ELSE IF \E n \in frontier : n.segments[1] = findExit(level)[1]
       THEN <<k>>
       ELSE LET moved == {solveLevelSuccessor(level, n, d) : n \in frontier, d \in DirectionNames}
                fresh == {m[1] : m \in moved \ {<<>>}} \ visited
            IN MinStepsFrom(level, fresh, visited \cup fresh, k + 1)

MinSteps(level) ==
  LET start == stateKey(buildInitialSegments(level.spawn, level.snakeLength, level.tiles), 0)
  IN MinStepsFrom(level, {start}, {start}, 0)

\* solveLevel has returned, and what it returned is one of the three outcomes,
\* each under the condition stated for it
C11_Outcomes ==
  verifier.phase = "done" =>
    LET r == verifier.result[1]
        level == verifier.level
        exit == findExit(level)[1]
        visited == Cardinality(verifier.seen)
        exitDequeued == \E i \in 1 .. verifier.head : verifier.queue[i].segments[1] = exit
    IN /\ Len(verifier.result) = 1
       /\ ~(r.solved /\ r.timeout)
       /\ r.solved =>
            /\ verifier.queue[verifier.head].segments[1] = exit
            /\ r.steps = MinSteps(level)
       /\ r.timeout =>
            /\ visited > verifier.maxStates
            /\ ~exitDequeued
       /\ (~r.solved /\ ~r.timeout) =>
            /\ verifier.head = Len(verifier.queue)
            /\ visited <= verifier.maxStates
            /\ ~exitDequeued

\* C11: solveLevel always terminates, with exactly one of three outcomes:
\* solved, when a dequeued node's head is on the exit, with steps the least
\* number of moves from the start; timeout, only when more than maxStates
\* states were visited before any exit node was dequeued; unsolved, only when
\* the queue is used up with at most maxStates states visited.
C11_SolveLevelOutcomes ==
  /\ [](verifier.phase \in {"running", "done"} /\ C11_Outcomes)
  /\ <>(verifier.phase = "done")

\* a level with a star and portals was solved in more than one move
C11_Witness ==
  /\ verifier.phase = "done"
  /\ verifier.result[1].solved
  /\ verifier.result[1].steps[1] > 1
  /\ verifier.level.snakeLength = 2

(***************************************************************************)
(* The generator, the parser and the verifier on generated levels          *)
(***************************************************************************)
\* the cells of a grid that hold a symbol
CellsWith(grid, symbol) == {c \in Cells : GridAt(grid, c.x, c.y) = symbol}

\* a cell on the rim of the board
OnBorder(c) == c.x = 0 \/ c.y = 0 \/ c.x = GRID_COLS - 1 \/ c.y = GRID_ROWS - 1

\* a grid has the size of the board
BoardSized(grid) ==
  /\ Len(grid) = GRID_ROWS
  /\ \A py \in 1 .. Len(grid) : Len(grid[py]) = GRID_COLS

\* C13: at every point of enhanceMap the grid has GRID_ROWS rows of GRID_COLS
\* symbols, its border cells are walls, and its spawn and exit symbols are
\* those of the template, of which there is exactly one spawn and at least
\* one exit; carving has only turned interior wall cells into empty cells,
\* and every cell rewritten after carving was empty; the value returned has
\* these properties too
C13_ShapePreserved ==
  LET base == generator.baseRows
      grid == generator.grid
  IN /\ BoardSized(grid)
     /\ \A c \in Cells : OnBorder(c) => GridAt(grid, c.x, c.y) = "#"
     /\ CellsWith(grid, "S") = CellsWith(base, "S")
     /\ Cardinality(CellsWith(grid, "S")) = 1
     /\ CellsWith(grid, "E") = CellsWith(base, "E")
     /\ CellsWith(grid, "E") # {}
     /\ \A c \in Cells :
          GridAt(generator.carved, c.x, c.y) # GridAt(base, c.x, c.y) =>
            /\ ~OnBorder(c)
            /\ GridAt(base, c.x, c.y) = "#"
            /\ GridAt(generator.carved, c.x, c.y) = "."
     /\ \A c \in Cells :
          GridAt(grid, c.x, c.y) # GridAt(generator.carved, c.x, c.y) =>
            GridAt(generator.carved, c.x, c.y) = "."
     /\ generator.phase = "done" =>
          /\ generator.result # <<>>
          /\ generator.result[1] \in {grid, base}
          /\ generator.result[1] = enhanceMap(base, generator.world, generator.stage)

\* enhanceMap has returned a grid in which it carved and placed
C13_Witness ==
  /\ generator.phase = "done"
  /\ generator.carved # generator.baseRows
  /\ generator.result[1] # generator.carved

\* the cells next to a cell, on the board
Beside(c) ==
  {n \in {Pt(c.x + 1, c.y), Pt(c.x - 1, c.y), Pt(c.x, c.y + 1), Pt(c.x, c.y - 1)} :
     n.x \in Cols /\ n.y \in Rows}

\* one more step of a flood through cells that are neither wall nor
\* obstacle: the cells reached so far and those reached last
Spread(grid, f) ==
  LET fresh == {n \in UNION {Beside(c) : c \in f.edge} :
                  n \notin f.reached /\ GridAt(grid, n.x, n.y) \notin {"#", "X"}}
  IN [reached |-> f.reached \cup fresh, edge |-> fresh]

RECURSIVE SpreadRun(_, _, _)

\* at most n steps of a flood, evaluated by halves
SpreadRun(grid, f, n) ==
  IF n <= 1
  THEN Spread(grid, f)
  ELSE LET half == SpreadRun(grid, f, n \div 2)
       IN IF half.edge = {} THEN half ELSE SpreadRun(grid, half, n - (n \div 2))

\* there is a route from the spawn symbol to an exit symbol of a grid
\* through cells that are neither wall nor obstacle
HasRoute(grid) ==
  \E from \in CellsWith(grid, "S") :
    SpreadRun(grid, [reached |-> {from}, edge |-> {from}],
              GRID_ROWS * GRID_COLS).reached \cap CellsWith(grid, "E") # {}

\* C15: when the template has a route from the spawn to the exit through
\* cells that are neither wall nor obstacle, the grid has one at every
\* point of enhanceMap, and so has the grid that enhanceMap returns
C15_RouteKept ==
  HasRoute(generator.baseRows) =>
    /\ HasRoute(generator.grid)
    /\ generator.phase = "done" => HasRoute(generator.result[1])

\* enhanceMap has returned a grid in which it placed an obstacle
C15_Witness ==
  /\ generator.phase = "done"
  /\ HasRoute(generator.baseRows)
  /\ CellsWith(generator.result[1], "X") # CellsWith(generator.baseRows, "X")

\* the symbol that the step of enhanceMap at a phase places
PlacedSymbol(phase) ==
  CASE phase = "obstacles" -> "X"
    [] phase = "items" -> "I"
    [] phase = "bigItems" -> "G"
    [] phase = "stars" -> "T"

\* a cell that placeSymbols may fill: off the safe path found after carving
\* and more than 2 steps from the spawn and from the exit
OffRoute(e, c) ==
  /\ \A i \in 1 .. Len(e.safePath) : e.safePath[i] # c
  /\ manhattan(c, e.spawn[1]) > 2
  /\ manhattan(c, e.exit[1]) > 2

\* the step that places obstacles, items, big items or stars rewrites only
\* cells that were empty, off the route and far from spawn and exit
PlacesOnEmptySideCells ==
  generator.phase \in {"obstacles", "items", "bigItems", "stars"} =>
    \A c \in Cells :
      GridAt(generator'.grid, c.x, c.y) # GridAt(generator.grid, c.x, c.y) =>
        /\ GridAt(generator.grid, c.x, c.y) = "."
        /\ GridAt(generator'.grid, c.x, c.y) = PlacedSymbol(generator.phase)
        /\ OffRoute(generator, c)

\* every obstacle, item, big item or star of the grid that the grid after
\* carving did not hold lies on a cell that was empty after carving, off the
\* route and far from spawn and exit
AddedOnEmptySideCells ==
  \A c \in Cells :
    (/\ GridAt(generator.grid, c.x, c.y) \in {"X", "I", "G", "T"}
     /\ GridAt(generator.grid, c.x, c.y) # GridAt(generator.carved, c.x, c.y)) =>
      /\ GridAt(generator.carved, c.x, c.y) = "."
      /\ OffRoute(generator, c)

\* C16: every obstacle, Item, BigItem and StarItem symbol that enhanceMap
\* adds after carving is written onto a cell that was empty, that is not on
\* the safe path recomputed after carving and that is more than 2 steps
\* (Manhattan) from the spawn and from the exit; no placement rewrites a
\* cell that an earlier placement has filled
C16_PlacementOnSideCells == [](AddedOnEmptySideCells) /\ [][PlacesOnEmptySideCells]_vars

\* enhanceMap has returned a grid to which it added an obstacle, an item, a
\* big item and a star
C16_Witness ==
  /\ generator.phase = "done"
  /\ \A symbol \in {"X", "I", "G", "T"} :
       CellsWith(generator.grid, symbol) \ CellsWith(generator.carved, symbol) # {}

\* the cells that the portal step of enhanceMap rewrote
PortalStepCells == {c \in Cells : GridAt(generator.afterPortal, c.x, c.y)
                              # GridAt(generator.beforePortal, c.x, c.y)}

\* a cell far enough from the spawn and from the exit to hold a portal
FarFromEnds(c) ==
  /\ manhattan(c, generator.spawn[1]) >= 6
  /\ manhattan(c, generator.exit[1]) >= 6

\* two of the candidates handed to placePortalPair are far from spawn and
\* exit and at least 8 steps from each other
EligiblePair ==
  LET far == {i \in 1 .. Len(generator.candidates) : FarFromEnds(generator.candidates[i])}
  IN \E i \in far, j \in far : manhattan(generator.candidates[i], generator.candidates[j]) >= 8

Edit_Cells == {Pt(cx, cy) : cx \in 1 .. 4, cy \in 1 .. 2}

Edit_Symbols == {"S", "E", ".", "?"}

\* the maps after one symbol of a map has been rewritten
EditedOnce(map) ==
  {GridSet(map, c.x, c.y, symbol) : c \in Edit_Cells, symbol \in Edit_Symbols}

\* the maps after a row has been dropped or added, or one of the first rows
\* has been shortened or lengthened
Reshaped(map) ==
  {SubSeq(map, 1, Len(map) - 1), Append(map, map[1])}
    \cup {[map EXCEPT ![r] = SubSeq(@, 1, Len(@) - 1)] : r \in 1 .. 3}
    \cup {[map EXCEPT ![r] = Append(@, "#")] : r \in 1 .. 3}

\* the level definitions handed to parseMap: the definitions of the levels,
\* a generated definition, and what up to two rewritten symbols and a
\* changed shape make of them; a definition without a map
LevelDef_Inputs ==
  LET bases == {LevelDefs[i] : i \in DOMAIN LevelDefs} \cup {buildLevelDef(1, 1)}
      once(map) == {map} \cup EditedOnce(map)
      twice(map) == UNION {once(m) : m \in once(map)}
      maps(map) == twice(map) \cup UNION {Reshaped(m) : m \in once(map)}
  IN {[d EXCEPT !.map = m] : d \in bases, m \in UNION {maps(b.map) : b \in bases}}
       \cup {[id |-> d.id, snakeLength |-> d.snakeLength] : d \in bases}

ParserInit ==
  /\ Is(Game(FALSE))
  /\ last = [op |-> "other", ret |-> TRUE]
  /\ verifier = Idle
  /\ generator = Idle
  /\ storage = EmptyStorage
  /\ snakeCall = Idle
  /\ replay = Idle
  /\ \E levelDef \in LevelDef_Inputs :
       parser = [phase |-> "input", levelDef |-> levelDef]

\* parseMap(levelDef): the level returned or the error thrown
ParseMap ==
  /\ parser.phase = "input"
  /\ parser' = [phase |-> "done", levelDef |-> parser.levelDef,
                outcome |-> parseMap(parser.levelDef)]
  /\ UNCHANGED <<gameVars, last, verifier, generator, storage, snakeCall, replay>>

ParserNext == ParseMap

ParserSpec == ParserInit /\ [][ParserNext]_vars

\* the symbols of the map format
KnownSymbols == {".", "#", "E", "X", "S", "I", "G", "T", "P", "Q"}

\* the places (row, column, counted from 1) of a map that hold a symbol
PlacesWith(map, symbol) ==
  {p \in (DOMAIN map) \X (1 .. GRID_COLS) :
     p[2] \in DOMAIN map[p[1]] /\ map[p[1]][p[2]] = symbol}

\* a level definition that is not well-formed
Malformed(levelDef) ==
  \/ "map" \notin DOMAIN levelDef
  \/ Len(levelDef.map) # GRID_ROWS
  \/ \E r \in DOMAIN levelDef.map : Len(levelDef.map[r]) # GRID_COLS
  \/ \E r \in DOMAIN levelDef.map : \E k \in DOMAIN levelDef.map[r] :
       levelDef.map[r][k] \notin KnownSymbols
  \/ Cardinality(PlacesWith(levelDef.map, "S")) # 1
  \/ PlacesWith(levelDef.map, "E") = {}

\* C14: parseMap throws and produces no level when the row count differs
\* from GRID_ROWS, when a row's length differs from GRID_COLS, when a symbol
\* is unknown, when there is more than one spawn, no spawn or no exit; in
\* every other case it returns a level whose spawn tile is Empty and whose
\* spawn is the coordinate of the single spawn symbol
C14_ParseMapRejectsMalformed ==
  parser.phase = "done" =>
    IF Malformed(parser.levelDef)
    THEN /\ parser.outcome.error # ""
         /\ parser.outcome.value = <<>>
    ELSE /\ parser.outcome.error = ""
         /\ LET level == parser.outcome.value[1]
            IN /\ PlacesWith(parser.levelDef.map, "S")
                    = {<<level.spawn.y + 1, level.spawn.x + 1>>}
               /\ level.tiles[level.spawn.y][level.spawn.x] = TILE_EMPTY

\* parseMap has thrown on a definition with two spawn symbols
C14_Witness ==
  /\ parser.phase = "done"
  /\ "map" \in DOMAIN parser.levelDef
  /\ Cardinality(PlacesWith(parser.levelDef.map, "S")) = 2
  /\ parser.outcome.error = "has multiple spawn points"

\* C12: each of the 100 levels generated for world 1..10 and stage 1..10 is
\* parsed without an error, and the verifier's search from the initial snake
\* placement dequeues a node on the exit tile, so that it reports the level
\* solved, before the number of visited states exceeds the budget
C12_LevelsSolvable ==
  verifier # Idle =>
    /\ parser.outcome.error = ""
    /\ verifier.phase = "done"
    /\ verifier.result[1].solved
    /\ ~verifier.result[1].timeout
    /\ verifier.maxStates = DEFAULT_MAX_STATES
    /\ Cardinality(verifier.seen) <= DEFAULT_MAX_STATES
    /\ verifier.queue[verifier.head].segments[1] = findExit(verifier.level)[1]
    /\ verifier.level.id = (generator.world - 1) * 10 + generator.stage

\* the level of world 10, stage 10, with its obstacles, stars and portals
\* and a snake of two segments, was verified
C12_Witness ==
  /\ verifier # Idle
  /\ verifier.result[1].solved
  /\ generator.world = 10
  /\ generator.stage = 10
  /\ verifier.level.snakeLength = 2
  /\ verifier.result[1].steps[1] > 1

(***************************************************************************)
(* The event queue, level clear, the pacing gate                           *)
(***************************************************************************)
\* the games one command away from the state: every command that emits
AfterOneCommand ==
  {This, togglePause(This).g, undo(This).g, restartLevel(This).g, exitToTitle(This).g}
    \cup {tryMove(This, d, storageOk).g : d \in Direction_Inputs, storageOk \in BOOLEAN}
    \cup {startGame(This, fromBeginning, storageOk).g :
            fromBeginning \in BOOLEAN, storageOk \in BOOLEAN}

\* C21: the queue is first-in first-out and drain-and-clear.  A command only
\* appends to the events already queued; drainEvents returns the whole queue
\* in that order, changes nothing but the queue, which it leaves empty, and a
\* second drain right after it returns the empty list.
C21_DrainAndClear ==
  \A g \in AfterOneCommand :
    LET first == drainEvents(g)
        second == drainEvents(first.g)
    IN /\ Len(g.eventQueue) >= Len(eventQueue)
       /\ SubSeq(g.eventQueue, 1, Len(eventQueue)) = eventQueue
       /\ first.ret = eventQueue \o NewEvents(g)
       /\ first.g = [g EXCEPT !.eventQueue = <<>>]
       /\ second.ret = <<>>
       /\ second.g = first.g

\* a move left three events in the queue, and a further command adds to them
C21_Witness ==
  /\ last.op = "tryMove" /\ last.ret
  /\ Len(eventQueue) >= 3
  /\ \E g \in AfterOneCommand :
       /\ Len(g.eventQueue) > Len(eventQueue)
       /\ drainEvents(g).ret[1] = eventQueue[1]
       /\ drainEvents(g).g.eventQueue = <<>>

(***************************************************************************)
(* A session on stored progress: the constructor reads localStorage, then  *)
(* the player starts or selects a level and plays.  Animations are off     *)
(* (reduceMotion), so that no clock is needed between two moves.           *)
(***************************************************************************)
\* a storage with the three progress keys; <<>> is a key that is not there
Stored(primary, backup, legacy) ==
  [readable |-> TRUE, wormPuzzleProgress |-> primary,
   wormPuzzleProgressBackup |-> backup, wormPuzzleProgressLevel |-> legacy]

Storage_Inputs ==
  {Stored(primary, backup, <<>>) :
     primary \in {<<>>, <<"">>, <<"{">>, <<"null">>, <<PrimaryText>>},
     backup \in {<<>>, <<"{">>, <<BackupText>>}}
    \cup {Stored(copies[1], copies[2], legacy) :
            copies \in {<< <<>>, <<>> >>, << <<PrimaryText>>, <<>> >>,
                        << <<"{">>, <<>> >>, << <<>>, <<"{">> >>},
            legacy \in {<<"1">>, <<"7">>, <<"-2">>, <<"abc">>}}
    \cup {[EmptyStorage EXCEPT !.readable = FALSE]}

ProgressInit ==
  /\ \E store \in Storage_Inputs :
       /\ storage = store
       /\ Is(WormPuzzleGame(store, TRUE))
  /\ last = [op |-> "other", ret |-> TRUE]
  /\ verifier = Idle
  /\ generator = Idle
  /\ parser = Idle
  /\ snakeCall = Idle
  /\ replay = Idle

ProgressNext ==
  \/ \E fromBeginning \in BOOLEAN, storageOk \in BOOLEAN : StartGame(fromBeginning, storageOk)
  \/ OpenLevelSelect
  \/ \E index \in Index_Inputs, storageOk \in BOOLEAN :
        SelectLevel(index, FALSE, FALSE, storageOk)
  \/ \E directionName \in Direction_Inputs, storageOk \in BOOLEAN :
        TryMove(directionName, storageOk)
  \/ DrainEvents

ProgressSpec == ProgressInit /\ [][ProgressNext]_vars

\* the move tryMove(d) is accepted and ends with the head on the Exit
ReachesExit(m) ==
  m.ret /\ m.g.tiles[m.g.segments[1].y][m.g.segments[1].x] = TILE_EXIT

\* no tryMove and no undo is accepted from g, and neither changes anything
MovesRefused(g) ==
  /\ ~undo(g).ret /\ undo(g).g = g
  /\ \A d \in Direction_Inputs, storageOk \in BOOLEAN :
       ~tryMove(g, d, storageOk).ret /\ tryMove(g, d, storageOk).g = g

\* a step from a completed level back into Playing is a fresh load
PlayAgainOnlyAfterLoad ==
  (state \in {"level_complete", "game_complete"} /\ state' = "playing") =>
    /\ loaded'
    /\ moveCount' = 0
    /\ history' = <<>>
    /\ segments' = levelStartSegments'
    /\ tiles' = LEVELS[levelIndex'].tiles

\* C22: an accepted move that ends on the Exit, in that same move, sets the
\* best-move count of the level to moveCount iff there was none or moveCount is
\* smaller, leaves the other levels' bests alone, raises progressClears by 1,
\* and enters GameComplete iff the level is the last one, else unlocks up to
\* the next level and enters LevelComplete.  While the state is LevelComplete
\* or GameComplete no tryMove and no undo is accepted, and Playing is entered
\* again only by a step that loads a level.
LevelClearHandled ==
  (loaded /\ state = "playing") =>
    \A d \in DirectionNames, storageOk \in BOOLEAN :
      LET m == tryMove(This, d, storageOk)
          levelId == LEVELS[levelIndex].id
          previousBest == bestMoves[levelId]
          improved == previousBest = 0 \/ m.g.moveCount < previousBest
      IN ReachesExit(m) =>
           /\ m.g.moveCount = moveCount + 1
           /\ m.g.bestMoves[levelId] = (IF improved THEN m.g.moveCount ELSE previousBest)
           /\ \A other \in DOMAIN bestMoves \ {levelId} :
                m.g.bestMoves[other] = bestMoves[other]
           /\ m.g.progressClears = progressClears + 1
           /\ (m.g.state = "game_complete") <=> (levelIndex = NumLevels - 1)
           /\ levelIndex # NumLevels - 1 =>
                /\ m.g.state = "level_complete"
                /\ m.g.unlockedLevelIndex = Max2(unlockedLevelIndex, levelIndex + 1)
           /\ MovesRefused(m.g)

C22_LevelClear ==
  /\ [](LevelClearHandled)
  /\ [](state \in {"level_complete", "game_complete"} => MovesRefused(This))
  /\ [][PlayAgainOnlyAfterLoad]_vars

\* the last level was cleared in more moves than the stored best, which stands
C22_Witness ==
  /\ last.op = "tryMove" /\ last.ret
  /\ state = "game_complete"
  /\ bestMoves[LEVELS[levelIndex].id] > 0
  /\ bestMoves[LEVELS[levelIndex].id] < moveCount
  /\ progressClears = 3

(***************************************************************************)
(* A session on a fine clock: the frame loop calls update() with frames of *)
(* varying length, so that the pacing gate is met just before and just at  *)
(* 70% of the move animation.                                              *)
(***************************************************************************)
\* the clock of the session stops here
MaxClockMs == 170

\* the lengths of a frame, in ms
Frame_Inputs == {41, 42, 43}

PacingInit ==
  /\ \E reduceMotion \in BOOLEAN : Is(Game(reduceMotion))
  /\ last = [op |-> "other", ret |-> TRUE]
  /\ verifier = Idle
  /\ generator = Idle
  /\ parser = Idle
  /\ storage = EmptyStorage
  /\ snakeCall = Idle
  /\ replay = Idle

\* update(dtMs, nowTimeMs) one frame later
Tick(dtMs) ==
  /\ animationTimeMs + dtMs <= MaxClockMs
  /\ moveAnimation # <<>>
  /\ Call("update", [g |-> update(This, animationTimeMs + dtMs), ret |-> TRUE])

PacingNext ==
  \/ \E fromBeginning \in BOOLEAN : StartGame(fromBeginning, TRUE)
  \/ \E directionName \in Direction_Inputs : TryMove(directionName, TRUE)
  \/ \E dtMs \in Frame_Inputs : Tick(dtMs)
  \/ DrainEvents

PacingSpec == PacingInit /\ [][PacingNext]_vars

\* a move animation of positive duration is active and less than 70% of it
\* has elapsed
InEarlyPhase ==
  /\ moveAnimation # <<>>
  /\ moveAnimation[1].duration > 0
  /\ 100 * (animationTimeMs - moveAnimation[1].startAt) < 70 * moveAnimation[1].duration

\* the fields of a game that do not hold a time
Timeless(g) ==
  [g EXCEPT !.animationTimeMs = 0, !.moveAnimation = <<>>, !.deadlockHintUntil = 0]

\* C23: in Playing with a snake loaded, tryMove in a recognized direction is
\* refused with no state change (so with no 'blocked' event) iff a move
\* animation of positive duration is active and less than 70% of it has
\* elapsed.  Outside that phase the clock has no say: the same call one frame
\* later returns the same value and leaves the same game, times apart.
C23_PacingGate ==
  (loaded /\ state = "playing") =>
    \A d \in DirectionNames, storageOk \in BOOLEAN :
      LET m == tryMove(This, d, storageOk)
      IN /\ (~m.ret /\ m.g = This) <=> InEarlyPhase
         /\ ~InEarlyPhase =>
              \A dtMs \in Frame_Inputs :
                LET later == tryMove(update(This, animationTimeMs + dtMs), d, storageOk)
                IN later.ret = m.ret /\ Timeless(later.g) = Timeless(m.g)

\* exactly 70% of the animation has elapsed and a move is accepted; one
\* millisecond earlier it is not
C23_Witness ==
  /\ loaded /\ state = "playing" /\ moveAnimation # <<>>
  /\ animationTimeMs - moveAnimation[1].startAt = 84
  /\ moveAnimation[1].duration = MOVE_ANIMATION_MS
  /\ \E d \in DirectionNames :
       /\ tryMove(This, d, TRUE).ret
       /\ ~tryMove([This EXCEPT !.animationTimeMs = @ - 1], d, TRUE).ret

(***************************************************************************)
(* The snake: its segments, its initial placement, its moves               *)
(***************************************************************************)
\* no two segments of the list are on the same cell
PairwiseDistinct(segs) ==
  \A i \in 1 .. Len(segs), j \in 1 .. Len(segs) : i # j => segs[i] # segs[j]

\* C24: after a load that placed the segments on pairwise distinct cells, the
\* segments stay pairwise distinct through every accepted move and undo.
C24_SegmentsDistinct ==
  (loaded /\ PairwiseDistinct(levelStartSegments)) => PairwiseDistinct(segments)

(***************************************************************************)
(* A Snake object on its own: it is constructed on a small board, then     *)
(* moved and grown without the game around it (move and growByTailPosition *)
(* do not look at the board).                                              *)
(***************************************************************************)
\* the cells of the boards that may be open
Region_Cells == {Pt(cx, cy) : cx \in 1 .. 3, cy \in 1 .. 2}

\* the longest snake asked for
MaxSnakeLength == 4

\* the calls of move and growByTailPosition made on one snake
MaxSnakeCalls == 1

\* a board whose open cells are the given ones; a closed cell of the region
\* is an obstacle in its last column and wall elsewhere
BoardOf(open) ==
  [cy \in Rows |-> [cx \in Cols |->
     IF Pt(cx, cy) \in open THEN TILE_EMPTY
     ELSE IF Pt(cx, cy) \in Region_Cells /\ cx = 3 THEN TILE_OBSTACLE
     ELSE TILE_WALL]]

SnakeInit ==
  /\ Is(Game(FALSE))
  /\ last = [op |-> "other", ret |-> TRUE]
  /\ verifier = Idle
  /\ generator = Idle
  /\ parser = Idle
  /\ storage = EmptyStorage
  /\ replay = Idle
  /\ \E open \in SUBSET Region_Cells :
       \E spawn \in open, length \in 1 .. MaxSnakeLength :
         snakeCall = [phase |-> "input", spawn |-> spawn, length |-> length,
                      tiles |-> BoardOf(open)]

NewSnake ==
  /\ snakeCall.phase = "input"
  /\ \E made \in {Snake(snakeCall.spawn, snakeCall.length, snakeCall.tiles)} :
       snakeCall' = [phase |-> "made", spawn |-> snakeCall.spawn,
                     length |-> snakeCall.length, tiles |-> snakeCall.tiles,
                     segments |-> made.segments, direction |-> made.direction,
                     calls |-> 0]
  /\ UNCHANGED <<gameVars, last, verifier, generator, parser, storage, replay>>

SnakeMoves(directionName) ==
  /\ snakeCall.phase = "made"
  /\ snakeCall.calls < MaxSnakeCalls
  /\ \E moved \in {Snake_move([segments |-> snakeCall.segments,
                               direction |-> snakeCall.direction], directionName)} :
       snakeCall' = [snakeCall EXCEPT !.segments = moved.segments,
                                      !.direction = moved.direction,
                                      !.calls = @ + 1]
  /\ UNCHANGED <<gameVars, last, verifier, generator, parser, storage, replay>>

SnakeGrows(tailPosition) ==
  /\ snakeCall.phase = "made"
  /\ snakeCall.calls < MaxSnakeCalls
  /\ snakeCall' = [snakeCall EXCEPT !.segments = growByTailPosition(@, tailPosition),
                                    !.calls = @ + 1]
  /\ UNCHANGED <<gameVars, last, verifier, generator, parser, storage, replay>>

\* the positions handed to growByTailPosition: none, or a cell
TailPosition_Inputs == {<<>>} \cup {<<c>> : c \in Region_Cells}

SnakeNext ==
  \/ NewSnake
  \/ \E directionName \in Direction_Inputs : SnakeMoves(directionName)
  \/ \E tailPosition \in TailPosition_Inputs : SnakeGrows(tailPosition)

SnakeSpec == SnakeInit /\ [][SnakeNext]_vars

\* the cell is on the board and is neither wall nor obstacle
OpenCell(t, c) ==
  /\ c.x >= 0 /\ c.y >= 0 /\ c.x < GRID_COLS /\ c.y < GRID_ROWS
  /\ t[c.y][c.x] \notin {TILE_WALL, TILE_OBSTACLE}

Adjacent(a, b) == manhattan(a, b) = 1

RECURSIVE ReachRun(_, _, _)

\* the open cells within n steps of the cells of S
ReachRun(t, S, n) ==
  IF n = 0
  THEN S
  ELSE ReachRun(t, S \cup {c \in Region_Cells : OpenCell(t, c) /\ \E o \in S : Adjacent(o, c)},
                n - 1)

\* the walkable area that can be reached from the spawn
ReachableArea(t, spawn) == ReachRun(t, {spawn}, Cardinality(Region_Cells))

RECURSIVE SelfAvoidingWalks(_, _, _)

\* the chains of n pairwise distinct open cells that start at the spawn, each
\* cell next to the one before
SelfAvoidingWalks(t, spawn, n) ==
  IF n = 1
  THEN {<<spawn>>}
  ELSE UNION {{Append(w, c) : c \in {o \in Region_Cells :
                                        /\ OpenCell(t, o)
                                        /\ Adjacent(w[Len(w)], o)
                                        /\ \A i \in 1 .. Len(w) : w[i] # o}} :
                w \in SelfAvoidingWalks(t, spawn, n - 1)}

\* a snake was constructed and nothing was called on it yet
JustMade == snakeCall.phase = "made" /\ snakeCall.calls = 0

\* the required number of segments, the head on the spawn, every segment on
\* an open cell, consecutive segments next to each other or on one cell
WellPlaced ==
  /\ Len(snakeCall.segments) = snakeCall.length
  /\ snakeCall.segments[1] = snakeCall.spawn
  /\ \A i \in 1 .. Len(snakeCall.segments) : OpenCell(snakeCall.tiles, snakeCall.segments[i])
  /\ \A i \in 1 .. Len(snakeCall.segments) - 1 :
       \/ Adjacent(snakeCall.segments[i], snakeCall.segments[i + 1])
       \/ snakeCall.segments[i] = snakeCall.segments[i + 1]

\* C25 as stated: the placement is well formed, and segments share a cell
\* only if the walkable area reachable from the spawn is smaller than the
\* required length; the chain is then a chain of distinct cells followed by
\* repetitions of its last cell.
C25_InitialPlacementAsStated ==
  JustMade =>
    /\ WellPlaced
    /\ ~PairwiseDistinct(snakeCall.segments) =>
         /\ Cardinality(ReachableArea(snakeCall.tiles, snakeCall.spawn)) < snakeCall.length
         /\ \E k \in 1 .. Len(snakeCall.segments) :
              /\ PairwiseDistinct(SubSeq(snakeCall.segments, 1, k))
              /\ \A i \in k .. Len(snakeCall.segments) :
                   snakeCall.segments[i] = snakeCall.segments[k]

\* C25, amended: the placement is well formed; the segments are pairwise
\* distinct whenever some chain of the required number of distinct open
\* cells starts at the spawn; when there is none (which is also the case when
\* the reachable area is smaller than the required length) every segment is
\* on the spawn cell.
C25_InitialPlacement ==
  JustMade =>
    /\ WellPlaced
    /\ IF SelfAvoidingWalks(snakeCall.tiles, snakeCall.spawn, snakeCall.length) # {}
       THEN PairwiseDistinct(snakeCall.segments)
       ELSE \A i \in 1 .. Len(snakeCall.segments) :
              snakeCall.segments[i] = snakeCall.spawn

\* the spawn is the middle of a T: the area holds four cells, yet no chain of
\* three distinct cells starts there, and the three segments are on the spawn
C25_Witness ==
  /\ JustMade
  /\ snakeCall.length = 3
  /\ Cardinality(ReachableArea(snakeCall.tiles, snakeCall.spawn)) = 4
  /\ SelfAvoidingWalks(snakeCall.tiles, snakeCall.spawn, 3) = {}
  /\ snakeCall.segments = <<snakeCall.spawn, snakeCall.spawn, snakeCall.spawn>>

\* the Snake object of the call
TheSnake == [segments |-> snakeCall.segments, direction |-> snakeCall.direction]

\* C26: move in a recognized direction keeps the length, puts the new head
\* one step from the old head in that direction, gives segment i+1 the old
\* cell of segment i (the old last cell is dropped) and turns the facing to
\* the direction; move in an unrecognized direction changes nothing;
\* growByTailPosition appends one segment, on the position supplied or on the
\* last segment when none is supplied, and changes no other segment.
C26_MoveAndGrow ==
  snakeCall.phase = "made" =>
    /\ \A d \in Direction_Inputs :
         LET moved == Snake_move(TheSnake, d)
         IN IF d \in DirectionNames
            THEN /\ Len(moved.segments) = Len(snakeCall.segments)
                 /\ moved.segments[1].x = snakeCall.segments[1].x + DIRECTIONS[d].x
                 /\ moved.segments[1].y = snakeCall.segments[1].y + DIRECTIONS[d].y
                 /\ \A i \in 1 .. Len(snakeCall.segments) - 1 :
                      moved.segments[i + 1] = snakeCall.segments[i]
                 /\ moved.direction = d
            ELSE moved = TheSnake
    /\ \A tailPosition \in TailPosition_Inputs :
         LET grown == growByTailPosition(snakeCall.segments, tailPosition)
         IN /\ Len(grown) = Len(snakeCall.segments) + 1
            /\ grown[Len(grown)] = (IF tailPosition = <<>>
                                    THEN snakeCall.segments[Len(snakeCall.segments)]
                                    ELSE tailPosition[1])
            /\ \A i \in 1 .. Len(snakeCall.segments) : grown[i] = snakeCall.segments[i]

\* a snake of four segments went up one cell
C26_Witness ==
  /\ snakeCall.phase = "made" /\ snakeCall.calls = 1
  /\ snakeCall.direction = "up"
  /\ Len(snakeCall.segments) = 4
  /\ snakeCall.segments[2] = snakeCall.spawn
  /\ snakeCall.segments[1] = Pt(snakeCall.spawn.x, snakeCall.spawn.y - 1)

(***************************************************************************)
(* Level select, key bindings, storage, the order of a move's effects      *)
(***************************************************************************)
\* the level index that an index asked for stands for
Clamped(index) ==
  IF index < 0 THEN 0 ELSE IF index > NumLevels - 1 THEN NumLevels - 1 ELSE index

\* C27: selectLevel without ignoreLock returns false and changes nothing when
\* the clamped index is above unlockedLevelIndex; otherwise it returns true,
\* loads that level afresh and enters Playing, the lock staying where it was.
\* getLevelSelectItems has one item per level and marks item i locked iff
\* i > unlockedLevelIndex; on a fresh game the lock is at the first level.
C27_LockedLevels ==
  /\ \A index \in (0 - 1) .. NumLevels, unlockThrough \in BOOLEAN, storageOk \in BOOLEAN :
       LET r == selectLevel(This, index, FALSE, unlockThrough, storageOk)
       IN IF Clamped(index) > unlockedLevelIndex
          THEN ~r.ret /\ r.g = This
          ELSE /\ r.ret
               /\ r.g.state = "playing"
               /\ r.g.loaded
               /\ r.g.levelIndex = Clamped(index)
               /\ r.g.tiles = LEVELS[Clamped(index)].tiles
               /\ r.g.segments = r.g.levelStartSegments
               /\ r.g.moveCount = 0 /\ r.g.history = <<>>
               /\ r.g.unlockedLevelIndex = unlockedLevelIndex
  /\ Len(getLevelSelectItems(This)) = NumLevels
  /\ \A i \in LevelIndexes :
       /\ getLevelSelectItems(This)[i + 1].index = i
       /\ getLevelSelectItems(This)[i + 1].locked <=> i > unlockedLevelIndex
  /\ (\E reduceMotion \in BOOLEAN : This = Game(reduceMotion)) => unlockedLevelIndex = 0

\* the player is in the middle of the first level, the second is locked, and
\* selecting it is refused
C27_Witness ==
  /\ state = "playing" /\ moveCount = 2 /\ levelIndex = 0
  /\ getLevelSelectItems(This)[2].locked
  /\ ~getLevelSelectItems(This)[1].locked
  /\ ~selectLevel(This, 1, FALSE, FALSE, TRUE).ret
  /\ selectLevel(This, 0, FALSE, FALSE, TRUE).g.moveCount = 0

(***************************************************************************)
(* A session at the key binding screen                                     *)
(***************************************************************************)
\* the actions a binding is asked for: three with a slot, "start" that has
\* none, and a name that is no action
Action_Inputs == {"move_up", "undo", "restart", "start", "jump"}

\* the raw key tokens
Token_Inputs == {"", "u", "U", "r", "z", " "}

KeyInit ==
  /\ Is(Game(FALSE))
  /\ last = [op |-> "other", ret |-> TRUE]
  /\ verifier = Idle
  /\ generator = Idle
  /\ parser = Idle
  /\ storage = EmptyStorage
  /\ snakeCall = Idle
  /\ replay = Idle

SetBindingToken(action, rawToken, storageOk) ==
  /\ QueueHasRoom
  /\ Call("setBindingToken", setBindingToken(This, action, rawToken, storageOk))

KeyNext ==
  \/ \E action \in Action_Inputs, rawToken \in Token_Inputs, storageOk \in BOOLEAN :
        SetBindingToken(action, rawToken, storageOk)
  \/ DrainEvents

KeySpec == KeyInit /\ [][KeyNext]_vars

\* C28: for an action with a customBindings slot and a non-empty token,
\* setBindingToken returns true and getActionFromKey(token) then returns that
\* action, also when the token is a default key of another action; for an
\* action without a slot it returns false and changes no binding.
C28_CustomBinding ==
  \A action \in Action_Inputs, rawToken \in Token_Inputs \ {""}, storageOk \in BOOLEAN :
    LET r == setBindingToken(This, action, rawToken, storageOk)
    IN IF action \in DOMAIN DefaultCustomBindings
       THEN r.ret /\ getActionFromKey(r.g, rawToken) = <<action>>
       ELSE ~r.ret /\ r.g.settings = settings /\ r.g.keyMap = keyMap

\* what one call appended to the queue, the storage errors left out
Appended(before, after) ==
  SelectSeq(SubSeq(after.eventQueue, Len(before.eventQueue) + 1, Len(after.eventQueue)),
            LAMBDA e : e.type # "storage_error")

\* the call appended a storage_error of saveProgressData
ReportsFailedSave(before, after) ==
  \E i \in (Len(before.eventQueue) + 1) .. Len(after.eventQueue) :
     after.eventQueue[i] = [type |-> "storage_error",
                            payload |-> [operation |-> "save_progress"]]

\* a stored copy that is there and parses to an object
YieldsObject(copy) ==
  /\ copy # <<>>
  /\ copy[1] # ""
  /\ JSON_parse(copy[1]).error = ""
  /\ JSON_parse(copy[1]).value[1].kind = "object"

Missing(copy) == copy = <<>> \/ copy[1] = ""

\* the progress fields of the game are those of the record p
StartsFrom(p) ==
  /\ unlockedLevelIndex = p.unlockedLevelIndex
  /\ levelIndex = p.unlockedLevelIndex
  /\ bestMoves = p.bestMoves
  /\ totalMoveCount = p.totalMoves
  /\ progressClears = p.clears
  /\ totalItemsCollected = p.totalItems

\* C29: an accepted move whose storage write fails returns true as it does
\* when the write succeeds, leaves the game in the same state apart from the
\* queue, queues the same events and, in addition, a 'storage_error' of the
\* save; and a game constructed on storage that cannot be read, or where
\* neither copy of the progress parses to an object, starts from the default
\* progress, or from the legacy level index clamped to the level range when
\* both copies are missing and the legacy key holds a number.
C29_StorageFailures ==
  /\ loaded /\ state = "playing" =>
       \A d \in Direction_Inputs :
         LET ok == tryMove(This, d, TRUE)
             failing == tryMove(This, d, FALSE)
         IN /\ failing.ret = ok.ret
            /\ ok.ret =>
                 /\ [failing.g EXCEPT !.eventQueue = <<>>] = [ok.g EXCEPT !.eventQueue = <<>>]
                 /\ Appended(This, failing.g) = Appended(This, ok.g)
                 /\ ReportsFailedSave(This, failing.g)
                 /\ ~ReportsFailedSave(This, ok.g)
  /\ /\ state = "title"
     /\ \/ ~storage.readable
        \/ /\ ~YieldsObject(storage.wormPuzzleProgress)
           /\ ~YieldsObject(storage.wormPuzzleProgressBackup)
     => IF /\ storage.readable
           /\ Missing(storage.wormPuzzleProgress)
           /\ Missing(storage.wormPuzzleProgressBackup)
           /\ storage.wormPuzzleProgressLevel # <<>>
           /\ parseInt(storage.wormPuzzleProgressLevel[1]) # <<>>
        THEN StartsFrom([DefaultProgress EXCEPT !.unlockedLevelIndex =
               clamp(parseInt(storage.wormPuzzleProgressLevel[1])[1], 0, NumLevels - 1)])
        ELSE StartsFrom(DefaultProgress)

\* the game was made from a legacy key beyond the last level, began on the
\* last level, and a move there was accepted although its save failed
C29_Witness ==
  /\ storage = Stored(<<>>, <<>>, <<"7">>)
  /\ unlockedLevelIndex = NumLevels - 1
  /\ state = "playing"
  /\ last = [op |-> "tryMove", ret |-> TRUE]
  /\ ReportsFailedSave([eventQueue |-> <<>>], This)

\* the place of an event type in the order of a move's effects; 0 for an
\* event that is no effect of a move
EffectRank(type) ==
  CASE type \in {"power_start", "item_collected"} -> 1
    [] type = "portal_used" -> 2
    [] type = "power_end" -> 3
    [] type = "move" -> 4
    [] type \in {"level_clear", "game_complete", "deadlock"} -> 5
    [] OTHER -> 0

\* what one call appended to the queue: the events of a move's effects
Effects(before, after) ==
  SelectSeq(SubSeq(after.eventQueue, Len(before.eventQueue) + 1, Len(after.eventQueue)),
            LAMBDA e : EffectRank(e.type) > 0)

\* C30: an accepted move appends a history delta that holds the move count,
\* the tail and the facing of before the move, and queues its events in the
\* order item collection ('power_start', 'item_collected'), 'portal_used',
\* 'power_end', then exactly one 'move' with the incremented moveCount and the
\* star counter of after the tick, then at most one 'level_clear',
\* 'game_complete' or 'deadlock'.
C30_EffectOrder ==
  loaded /\ state = "playing" =>
    \A d \in DirectionNames, storageOk \in BOOLEAN :
      LET m == tryMove(This, d, storageOk)
          effects == Effects(This, m.g)
          moves == {i \in DOMAIN effects : effects[i].type = "move"}
      IN m.ret =>
           /\ m.g.history # <<>>
           /\ m.g.history[Len(m.g.history)].moveCountBefore = moveCount
           /\ m.g.history[Len(m.g.history)].tail = segments[Len(segments)]
           /\ m.g.history[Len(m.g.history)].previousDirection = direction
           /\ \A i, j \in DOMAIN effects :
                i < j => EffectRank(effects[i].type) <= EffectRank(effects[j].type)
           /\ Cardinality(moves) = 1
           /\ \A i \in moves :
                /\ effects[i].payload.moveCount = moveCount + 1
                /\ effects[i].payload.starMoves = m.g.starMovesRemaining
                /\ i >= Len(effects) - 1
           /\ \A i, j \in DOMAIN effects :
                EffectRank(effects[i].type) = 5 /\ EffectRank(effects[j].type) = 5 => i = j

\* a move through a portal on which the star power ran out: the queue holds
\* 'portal_used', 'power_end' and 'move' in this order, and the history the
\* move count of before the move
C30_Witness ==
  /\ last = [op |-> "tryMove", ret |-> TRUE]
  /\ Len(eventQueue) = 3
  /\ eventQueue[1].type = "portal_used"
  /\ eventQueue[2].type = "power_end"
  /\ eventQueue[3].type = "move"
  /\ eventQueue[3].payload.moveCount = moveCount
  /\ eventQueue[3].payload.starMoves = 0
  /\ history # <<>>
  /\ history[Len(history)].moveCountBefore = moveCount - 1

(***************************************************************************)
(* The replay log and the replay archive                                   *)
(***************************************************************************)
\* this.replayLog of loadLevel and an empty this.replayArchive: moves are the
\* logged moves, archive is <<>> or <<the archive of the level>>
NewReplayLog == [phase |-> "logging", moves |-> <<>>, archive |-> <<>>]

\* recordReplayMove; moveIndex is this.moveCount of the call (atMs, a reading
\* of the wall clock, is left out)
recordReplayMove(r, directionName, moveIndex) ==
  [r EXCEPT !.moves = Append(@, [direction |-> directionName, moveIndex |-> moveIndex])]

\* storeReplayArchive, for the game g
storeReplayArchive(r, g) ==
  [r EXCEPT !.archive = <<[moveCount |-> g.moveCount,
                           moves |-> r.moves,
                           startSegments |-> g.levelStartSegments,
                           startTiles |-> g.levelStartTiles]>>]

\* one pass of the loop of getReplayDebugState over the move step
replayStep(sim, step) ==
  LET d == DIRECTIONS[step.direction]
      nx == sim.segments[1].x + d.x
      ny == sim.segments[1].y + d.y
      nextTile == sim.tiles[ny][nx]
      tail == sim.segments[Len(sim.segments)]
      growth == IF nextTile = TILE_ITEM THEN 1
                ELSE IF nextTile = TILE_BIG_ITEM THEN 2 ELSE 0
      activatedStar == nextTile = TILE_STAR_ITEM
      shifted == <<Pt(nx, ny)>> \o SubSeq(sim.segments, 1, Len(sim.segments) - 1)
      grown == shifted \o [k \in 1 .. growth |-> tail]
      destination == FirstCell(sim.tiles, IF nextTile = TILE_PORTAL_A
                                          THEN TILE_PORTAL_B ELSE TILE_PORTAL_A)
      warped == IF nextTile \in {TILE_PORTAL_A, TILE_PORTAL_B} /\ destination # <<>>
                THEN [grown EXCEPT ![1] = destination[1]]
                ELSE grown
      starMoves == IF activatedStar THEN STAR_POWER_MOVES ELSE sim.starMoves
  IN IF step.direction \notin DirectionNames THEN sim
     ELSE IF ~isInsideBoard(nx, ny) THEN sim
     ELSE IF nextTile = TILE_WALL THEN sim
     ELSE IF nextTile = TILE_OBSTACLE /\ sim.starMoves <= 0 THEN sim
     ELSE [segments |-> warped,
           tiles |-> IF nextTile \in {TILE_ITEM, TILE_BIG_ITEM, TILE_STAR_ITEM}
                     THEN [sim.tiles EXCEPT ![ny][nx] = TILE_EMPTY]
                     ELSE sim.tiles,
           starMoves |-> IF starMoves > 0 /\ ~activatedStar
                         THEN starMoves - 1 ELSE starMoves]

RECURSIVE replayRun(_, _, _, _)

\* the passes i + 1 .. capped of the loop
replayRun(sim, steps, i, capped) ==
  IF i >= capped
  THEN sim
  ELSE replayRun(replayStep(sim, steps[i + 1]), steps, i + 1, capped)

\* getReplayDebugState(stepIndex) on the archive: <<>> is null
getReplayDebugState(r, stepIndex) ==
  IF r.archive = <<>>
  THEN <<>>
  ELSE LET archive == r.archive[1]
           capped == clamp(stepIndex, 0, Len(archive.moves))
           sim == replayRun([segments |-> archive.startSegments,
                             tiles |-> archive.startTiles, starMoves |-> 0],
                            archive.moves, 0, capped)
       IN <<[totalSteps |-> Len(archive.moves),
             step |-> capped,
             direction |-> IF capped > 0 THEN <<archive.moves[capped].direction>> ELSE <<>>,
             starMoves |-> sim.starMoves,
             segments |-> sim.segments]>>

(***************************************************************************)
(* Play on one level: the game's first level is one of a few small maps    *)
(* and its second the second shipped one; the level was started and the    *)
(* player moves and undoes.  Animations are off (reduceMotion).            *)
(***************************************************************************)
\* most accepted moves in one play (cap on totalMoveCount)
MaxPlayMoves == 5

\* first levels: a portal into a walled pocket; a corridor closed by
\* obstacles at both ends; items of every kind; two PortalA and one PortalB;
\* a PortalA without a PortalB; open cells on the edge of the board; a second
\* PortalA on the way to the Exit, the first pair walled off
PlayLevelDefs ==
  << [id |-> 1, snakeLength |-> 1,
      map |-> WalledIn(<< <<"#", "#", "#", "#", "#", "#">>,
                          <<"#", "S", "P", ".", "E", "#">>,
                          <<"#", "#", "#", "#", "#", "#">>,
                          <<"#", "Q", "#", "#", "#", "#">>,
                          <<"#", "#", "#", "#", "#", "#">> >>)],
     [id |-> 1, snakeLength |-> 1,
      map |-> WalledIn(<< <<"#", "#", "#", "#", "#", "#", "#", "#">>,
                          <<"#", "S", "T", "X", ".", "X", "E", "#">>,
                          <<"#", "#", "#", "#", "#", "#", "#", "#">> >>)],
     [id |-> 1, snakeLength |-> 2,
      map |-> WalledIn(<< <<"#", "#", "#", "#", "#", "#">>,
                          <<"#", "S", "I", "G", "E", "#">>,
                          <<"#", "T", "I", "X", "#", "#">>,
                          <<"#", "#", "#", "#", "#", "#">> >>)],
     [id |-> 1, snakeLength |-> 1,
      map |-> WalledIn(<< <<"#", "#", "#", "#", "#", "#">>,
                          <<"#", "S", "P", "Q", "E", "#">>,
                          <<"#", "P", "Q", ".", "#", "#">>,
                          <<"#", "#", "#", "#", "#", "#">> >>)],
     [id |-> 1, snakeLength |-> 3,
      map |-> WalledIn(<< <<"#", "#", "#", "#", "#", "#">>,
                          <<"#", "S", "P", "I", "E", "#">>,
                          <<"#", "#", "#", "#", "#", "#">> >>)],
     [id |-> 1, snakeLength |-> 1,
      map |-> WalledIn(<< <<"#", "S", "I", ".", "#">>,
                          <<".", ".", "#", "E", "#">>,
                          <<"#", "#", "#", "#", "#">> >>)],
     [id |-> 1, snakeLength |-> 1,
      map |-> WalledIn(<< <<"#", "#", "#", "#", "#", "#", "#">>,
                          <<"#", "#", "#", "#", "P", "Q", "#">>,
                          <<"#", "S", "P", "E", "#", "#", "#">>,
                          <<"#", "#", "#", "#", "#", "#", "#">> >>)] >>

\* this.levels of the game on the k-th first level
PlayLevels(k) == <<parseMap(PlayLevelDefs[k]).value[1], LEVELS[1]>>

PlayInit ==
  /\ \E k \in DOMAIN PlayLevelDefs :
       Is(setState(loadLevelFrom(PlayLevels(k), Game(TRUE), 0), "playing").g)
  /\ last = [op |-> "other", ret |-> TRUE]
  /\ verifier = Idle
  /\ generator = Idle
  /\ parser = Idle
  /\ storage = EmptyStorage
  /\ snakeCall = Idle
  /\ replay = NewReplayLog

\* tryMove with its replay log: an accepted move is recorded, and the move
\* that clears the level stores the archive
PlayMove(directionName, storageOk) ==
  /\ QueueHasRoom
  /\ tryMove(This, directionName, storageOk).ret => totalMoveCount < MaxPlayMoves
  /\ \E m \in {tryMove(This, directionName, storageOk)} :
       /\ Becomes(m.g)
       /\ last' = IF m.g = This THEN last ELSE [op |-> "tryMove", ret |-> m.ret]
       /\ replay' = IF ~m.ret
                    THEN replay
                    ELSE IF m.g.state \in {"level_complete", "game_complete"}
                         THEN storeReplayArchive(
                                recordReplayMove(replay, directionName, m.g.moveCount), m.g)
                         ELSE recordReplayMove(replay, directionName, m.g.moveCount)
  /\ UNCHANGED <<verifier, generator, parser, storage, snakeCall>>

PlayNext ==
  \/ \E directionName \in Direction_Inputs, storageOk \in BOOLEAN :
        PlayMove(directionName, storageOk)
  \/ Undo
  \/ DrainEvents

PlaySpec == PlayInit /\ [][PlayNext]_vars

(***************************************************************************)
(* Deadlock, portals, and the accounting of a play                         *)
(***************************************************************************)
\* the tile of the grid t at cell c, Wall outside the board
TileOn(t, c) ==
  IF c.x >= 0 /\ c.y >= 0 /\ c.x < GRID_COLS /\ c.y < GRID_ROWS THEN t[c.y][c.x] ELSE TILE_WALL

\* the cell c of the game g can be entered under the star counter of g
Enterable(g, c) ==
  /\ TileOn(g.tiles, c) # TILE_WALL
  /\ TileOn(g.tiles, c) = TILE_OBSTACLE => g.starMovesRemaining > 0

\* the head of g is off the Exit and no cell around it can be entered
Stuck(g) ==
  /\ TileOn(g.tiles, g.segments[1]) # TILE_EXIT
  /\ \A dir \in DirectionNames : ~Enterable(g, Step(g.segments[1], dir))

\* the call that led from before to after queued a 'deadlock' event
ReportsDeadlock(before, after) ==
  \E i \in (Len(before.eventQueue) + 1) .. Len(after.eventQueue) :
     after.eventQueue[i].type = "deadlock"

CellsOf(t, kind) == {c \in Cells : t[c.y][c.x] = kind}

\* the cell of the non-empty set S that comes first in row-major order
RowMajorFirst(S) ==
  CHOOSE c \in S : \A o \in S : c.y < o.y \/ (c.y = o.y /\ c.x <= o.x)

\* the call that led from before to after queued a 'portal_used' event
ReportsPortal(before, after) ==
  \E i \in (Len(before.eventQueue) + 1) .. Len(after.eventQueue) :
     after.eventQueue[i].type = "portal_used"

\* the link table is the one that the claim describes for the level's grid
LinksAsDescribed ==
  LET as == CellsOf(levelStartTiles, TILE_PORTAL_A)
      bs == CellsOf(levelStartTiles, TILE_PORTAL_B)
  IN IF as = {} \/ bs = {}
     THEN DOMAIN portalLinks = {}
     ELSE /\ DOMAIN portalLinks = {RowMajorFirst(as), RowMajorFirst(bs)}
          /\ portalLinks[RowMajorFirst(as)] = RowMajorFirst(bs)
          /\ portalLinks[RowMajorFirst(bs)] = RowMajorFirst(as)
          /\ \A p \in DOMAIN portalLinks : portalLinks[portalLinks[p]] = p

\* a move onto a portal tile without a link ends on that tile and uses no portal
UnlinkedPortalsAreFloor ==
  \A d \in DirectionNames, storageOk \in BOOLEAN :
    LET m == tryMove(This, d, storageOk)
        candidate == Step(segments[1], d)
    IN /\ TileOn(tiles, candidate) \in {TILE_PORTAL_A, TILE_PORTAL_B}
       /\ candidate \notin DOMAIN portalLinks
       => /\ m.ret
          /\ m.g.segments[1] = candidate
          /\ ~ReportsPortal(This, m.g)
          /\ m.g.tiles = tiles

\* C32: the link table is empty unless the level's grid has a PortalA and a
\* PortalB; otherwise it links the first PortalA and the first PortalB of the
\* row-major order to each other and nothing else; a move onto any other
\* portal tile ends on that tile as on an empty one; and no step of the play
\* changes the table.
C32_PortalLinks ==
  /\ [](loaded /\ state = "playing" => LinksAsDescribed /\ UnlinkedPortalsAreFloor)
  /\ [][portalLinks' = portalLinks]_vars

\* the head stands on the second PortalA of a level with two of each kind,
\* where the move left it
C32_Witness ==
  /\ last = [op |-> "tryMove", ret |-> TRUE]
  /\ Cardinality(CellsOf(levelStartTiles, TILE_PORTAL_A)) = 2
  /\ Cardinality(CellsOf(levelStartTiles, TILE_PORTAL_B)) = 2
  /\ segments[1] = Pt(1, 2)
  /\ tiles[2][1] = TILE_PORTAL_A
  /\ Pt(1, 2) \notin DOMAIN portalLinks
  /\ Pt(2, 1) \in DOMAIN portalLinks

\* C33: after a level load, through tryMove and undo, moveCount is the length
\* of the history plus discardedHistoryCount, the retained entry at array
\* index i (the oldest at index 0) records moveCountBefore =
\* discardedHistoryCount + i, an accepted undo takes moveCount down by one and
\* not below discardedHistoryCount, and with an empty history undo is refused.
C33_HistoryAccounting ==
  loaded =>
    /\ moveCount = Len(history) + discardedHistoryCount
    /\ \A k \in DOMAIN history :
         history[k].moveCountBefore = discardedHistoryCount + (k - 1)
    /\ undo(This).ret =>
         /\ undo(This).g.moveCount = moveCount - 1
         /\ undo(This).g.moveCount >= discardedHistoryCount
         /\ undo(This).g.discardedHistoryCount = discardedHistoryCount
    /\ history = <<>> => ~undo(This).ret /\ moveCount = discardedHistoryCount

\* the history is full and entries were dropped; one move was undone since,
\* and undoing the rest stops at the count of the dropped entries
C33_Witness ==
  /\ state = "playing"
  /\ discardedHistoryCount >= 2
  /\ Len(history) = HISTORY_LIMIT - 1
  /\ moveCount = discardedHistoryCount + HISTORY_LIMIT - 1
  /\ totalMoveCount > moveCount

\* C34: after a level load, through tryMove and undo, levelCollectedItems plus
\* the number of Item and BigItem tiles in the grid is levelTotalItems, so
\* that 0 <= levelCollectedItems <= levelTotalItems; a move onto a StarItem
\* and the undo of such a move leave levelCollectedItems as it is.
C34_ItemAccounting ==
  loaded =>
    /\ levelCollectedItems
         + Cardinality(CellsOf(tiles, TILE_ITEM) \cup CellsOf(tiles, TILE_BIG_ITEM))
         = levelTotalItems
    /\ 0 <= levelCollectedItems
    /\ levelCollectedItems <= levelTotalItems
    /\ \A d \in DirectionNames, storageOk \in BOOLEAN :
         /\ tryMove(This, d, storageOk).ret
         /\ TileOn(tiles, Step(segments[1], d)) = TILE_STAR_ITEM
         => tryMove(This, d, storageOk).g.levelCollectedItems = levelCollectedItems
    /\ /\ undo(This).ret
       /\ history[Len(history)].consumedItem # <<>>
       /\ history[Len(history)].consumedItem[1].tile = TILE_STAR_ITEM
       => /\ undo(This).g.levelCollectedItems = levelCollectedItems
          /\ CellsOf(undo(This).g.tiles, TILE_STAR_ITEM)
               = CellsOf(tiles, TILE_STAR_ITEM) \cup
                   {Pt(history[Len(history)].consumedItem[1].x,
                       history[Len(history)].consumedItem[1].y)}

\* the star and two of the three items of a level were taken
C34_Witness ==
  /\ state = "playing"
  /\ levelTotalItems = 3
  /\ levelCollectedItems = 2
  /\ levelStartTiles[2][1] = TILE_STAR_ITEM
  /\ tiles[2][1] = TILE_EMPTY
  /\ Cardinality(CellsOf(tiles, TILE_ITEM) \cup CellsOf(tiles, TILE_BIG_ITEM)) = 1

\* the cells that held the tile kind at the load and are Empty now
Consumed(kind) == {c \in CellsOf(levelStartTiles, kind) : tiles[c.y][c.x] = TILE_EMPTY}

\* C35: after a level load, through tryMove and undo, the snake has as many
\* segments as at the load, plus one for every Item cell consumed, plus two
\* for every BigItem cell consumed, and never fewer than one.
C35_LengthAccounting ==
  loaded =>
    /\ Len(segments) = Len(levelStartSegments)
                         + Cardinality(Consumed(TILE_ITEM))
                         + 2 * Cardinality(Consumed(TILE_BIG_ITEM))
    /\ Len(segments) >= 1

\* a snake of two took an Item and a BigItem, and the BigItem move was undone
C35_Witness ==
  /\ state = "playing"
  /\ Len(levelStartSegments) = 2
  /\ Len(segments) = 3
  /\ Cardinality(Consumed(TILE_ITEM)) = 1
  /\ CellsOf(levelStartTiles, TILE_BIG_ITEM) = {Pt(3, 1)}
  /\ tiles[1][3] = TILE_BIG_ITEM
  /\ totalItemsCollected = 1
  /\ totalMoveCount = 2
  /\ moveCount = 1

\* the cell c is on the board
OnBoard(c) == c.x >= 0 /\ c.y >= 0 /\ c.x < GRID_COLS /\ c.y < GRID_ROWS

\* C36: after a level load, through tryMove and undo, every segment is on the
\* board and on a tile that is not a Wall; a move towards a cell off the
\* board is refused like a move into a Wall; and a move that puts the head on
\* an Obstacle began with starMovesRemaining > 0.
C36_OnBoardOffWalls ==
  loaded =>
    /\ \A k \in DOMAIN segments :
         OnBoard(segments[k]) /\ tiles[segments[k].y][segments[k].x] # TILE_WALL
    /\ state = "playing" =>
         \A d \in DirectionNames, storageOk \in BOOLEAN :
           LET m == tryMove(This, d, storageOk)
               candidate == Step(segments[1], d)
           IN /\ ~OnBoard(candidate) \/ tiles[candidate.y][candidate.x] = TILE_WALL
                 => ~m.ret /\ m.g.segments = segments
              /\ /\ m.ret
                 /\ \/ TileOn(tiles, candidate) = TILE_OBSTACLE
                    \/ TileOn(m.g.tiles, m.g.segments[1]) = TILE_OBSTACLE
                 => starMovesRemaining > 0

\* the head stands on an Obstacle that a move under star power entered, and
\* the star power is not over
C36_Witness ==
  /\ last = [op |-> "tryMove", ret |-> TRUE]
  /\ tiles[segments[1].y][segments[1].x] = TILE_OBSTACLE
  /\ starMovesRemaining > 0
  /\ history[Len(history)].starMovesBefore > 0

(***************************************************************************)
(* Playing and the Exit, the verifier against the engine, the replay       *)
(* archive, unlocking                                                      *)
(***************************************************************************)
\* a step from a completed level into Playing ends on a freshly loaded level
BackIntoPlayByLoad ==
  state \in {"level_complete", "game_complete"} /\ state' = "playing" =>
    /\ loaded'
    /\ segments' = levelStartSegments'
    /\ tiles' = levelStartTiles'
    /\ tiles' = LEVELS[levelIndex'].tiles
    /\ moveCount' = 0
    /\ history' = <<>>

\* C37: in every state with state = Playing a level is loaded and the head is
\* on a tile that is not the Exit; an accepted move that ends on the Exit
\* leaves Playing; and every step from a completed level into Playing
\* reloads a level.
C37_NeverOnExitWhilePlaying ==
  /\ [](state = "playing" =>
          /\ loaded
          /\ tiles[segments[1].y][segments[1].x] # TILE_EXIT
          /\ \A d \in DirectionNames, storageOk \in BOOLEAN :
               LET m == tryMove(This, d, storageOk)
               IN m.ret /\ m.g.tiles[m.g.segments[1].y][m.g.segments[1].x] = TILE_EXIT
                  => m.g.state \in {"level_complete", "game_complete"})
  /\ [][BackIntoPlayByLoad]_vars

\* play goes on after a cleared level
C37_Witness ==
  /\ state = "playing"
  /\ progressClears >= 1
  /\ totalMoveCount >= 3
  /\ moveCount = 0
  /\ segments = levelStartSegments

\* the level that is being played, as the verifier is given it
PlayedLevel ==
  PlayLevels(CHOOSE k \in DOMAIN PlayLevelDefs :
               PlayLevels(k)[1].tiles = levelStartTiles)[1]

\* C38: when a sequence of tryMove calls from the freshly loaded level has
\* brought the engine's head onto the Exit, solveLevel on that level with the
\* default state budget returns solved, with no more steps than the sequence
\* has accepted moves.
C38_VerifierAcceptsCompletable ==
  state \in {"level_complete", "game_complete"} /\ totalMoveCount = moveCount =>
    \A v \in {solveLevel(PlayedLevel, DEFAULT_MAX_STATES)} :
      /\ v.result[1].solved
      /\ v.result[1].steps[1] <= moveCount

\* C39: at a level clear the archive holds exactly moveCount moves, and
\* getReplayDebugState at the last step of the archive gives the segment list
\* and the star counter that the engine has.
C39_ReplayReproducesPlay ==
  state \in {"level_complete", "game_complete"} /\ replay # Idle =>
    /\ replay.archive # <<>>
    /\ Len(replay.archive[1].moves) = moveCount
    /\ \A shown \in {getReplayDebugState(replay, Len(replay.archive[1].moves))} :
         /\ shown # <<>>
         /\ shown[1].segments = segments
         /\ shown[1].starMoves = starMovesRemaining

(***************************************************************************)
(* A session of handleAction commands on a fresh game                      *)
(***************************************************************************)
\* the actions of the game, and a name that is no action
HandleAction_Inputs == {ActionNames[i] : i \in DOMAIN ActionNames} \cup {"jump"}

HandleAction(action, storageOk) ==
  /\ QueueHasRoom
  /\ \E g \in {This} : \E r \in {handleAction(g, action, storageOk)} :
       /\ action \in DOMAIN ACTION_TO_DIRECTION /\ r.ret => totalMoveCount < MaxTotalMoves
       /\ Becomes(r.g)
       /\ last' = IF r.g = g THEN last
                  ELSE IF action \in DOMAIN ACTION_TO_DIRECTION
                       THEN [op |-> "tryMove", ret |-> r.ret]
                       ELSE [op |-> "other", ret |-> TRUE]
  /\ UNCHANGED <<verifier, generator, parser, storage, snakeCall, replay>>

ActionNext ==
  \/ \E action \in HandleAction_Inputs, storageOk \in BOOLEAN : HandleAction(action, storageOk)
  \/ Update
  \/ DrainEvents

ActionSpec == Init /\ [][ActionNext]_vars

\* the step is an accepted move that ends on the Exit of the current level
HeadReachesExit ==
  /\ state = "playing"
  /\ state' \in {"level_complete", "game_complete"}
  /\ levelIndex' = levelIndex
  /\ moveCount' = moveCount + 1
  /\ tiles'[segments'[1].y][segments'[1].x] = TILE_EXIT

\* the step loads the level after the current one and unlocks it
SkipsToNextLevel ==
  /\ levelIndex' = levelIndex + 1
  /\ unlockedLevelIndex' = levelIndex'
  /\ state' = "playing"
  /\ loaded'
  /\ moveCount' = 0
  /\ segments' = levelStartSegments'

\* C40 as stated: unlockedLevelIndex stays within the level range, never
\* decreases, and increases only in a step in which the head reaches the Exit
\* of the current level.
C40_UnlockOnlyByClearing ==
  /\ [](unlockedLevelIndex \in 0 .. (NumLevels - 1))
  /\ [][/\ unlockedLevelIndex' >= unlockedLevelIndex
        /\ unlockedLevelIndex' > unlockedLevelIndex => HeadReachesExit]_vars

\* C40 (amended): unlockedLevelIndex stays within the level range, never
\* decreases, and increases only in a step in which the head reaches the Exit
\* of the current level, or in a step of the 'next' action, which loads the
\* level after the current one and unlocks it without a clear.
C40_UnlockByClearingOrNext ==
  /\ [](unlockedLevelIndex \in 0 .. (NumLevels - 1))
  /\ [][/\ unlockedLevelIndex' >= unlockedLevelIndex
        /\ unlockedLevelIndex' > unlockedLevelIndex =>
             HeadReachesExit \/ SkipsToNextLevel]_vars

\* the second level is unlocked and in play, and no level was ever cleared
C40_Witness ==
  /\ unlockedLevelIndex = 1
  /\ levelIndex = 1
  /\ state = "playing"
  /\ progressClears = 0
  /\ totalMoveCount = 0

====
